---- MODULE Spec2Model ----
(***************************************************************************)
(* The segmented timer of the Life Clock extension: the scheduler that     *)
(* lives in background.js (one TimerState, one paused flag, one interval   *)
(* handle, the snapshot in chrome.storage.local and the notifications it   *)
(* raises), driven by the five messages of the control channel and by the  *)
(* one-second interval callback.                                           *)
(***************************************************************************)
EXTENDS Integers, FiniteSets, Sequences, TLC

\* ------------------------------------------------------------------ bounds
\* Largest total (minutes) and largest grace period (minutes) a start draws.
MaxTotal == 4
MaxGrace == 2
\* The same two limits for the sessions started while a popup is observed.
UiMaxTotal == 2
UiMaxGrace == 1
\* The gateway: how many client identities send requests, and how far on
\* each side of the two length limits the request texts range.
MaxClients == 2
LenMargin == 1
\* The limiter's window (windowMs), in the time steps of the model.
WindowTicks == 2
\* The dream journal: how many words a typed dream text is made of.
MaxWords == 3
\* The timer popup: how many polling loops are followed at once.
MaxIntervals == 2
\* The journal API client: how many blanks a text carries at either end.
MaxPad == 1
\* How many DreamResultsUI instances the page creates.
MaxInstances == 3
\* The DreamResultsUI objects of the page.
Instances == 1..MaxInstances

\* ------------------------------------------------------- program constants
\* segment * 60, grace * 60, remainingTime * 60: minutes to seconds.
SecondsPerMinute == 60
\* "Save state every 10 seconds": currentTime % 10 === 0.
SaveEvery == 10
\* DreamAnalysisSchema: dreamText .min(20) and .max(2000).
MinDreamText == 20
MaxDreamText == 2000
\* dreamAnalysisLimiter: max requests per window and client.
RateMax == 10
\* JournalAPI: this.timeout = 30000, in seconds.
TimeoutSeconds == 30
\* JournalAPI.analyzeDream: the least and the greatest dreamText.length it
\* sends.
ApiMinLength == 20
ApiMaxLength == 2000
\* The analyze button's least length of a dream text.
MinAnalyzeLength == 20

VARIABLES
    globalTimerState,     \* background.js:2, the TimerState object, or Null
    globalIsPaused,       \* background.js:3, the paused flag
    globalTimerInterval,  \* background.js:4, "null" or "set" (holds a handle)
    liveIntervals,        \* number of setInterval loops not yet cleared
    storage,              \* chrome.storage.local: keys currentTimer, isPaused
    notified,             \* title of the notification raised by the last step
    lastMsg,              \* what the last step handled: msg.type, or "TICK"
    response,             \* what the last step passed to sendResponse
    phase,                \* the phase begun most recently: work or break, and
                          \* the currentTime it was given (lines 49, 79, 96, 105)
    config,               \* arguments of the last startSegmentedTimer call
    ticks,                \* interval callbacks since the last START_TIMER,
                          \* counted while no pause, resume or stop has come
    commanded,            \* a pause/resume/stop came since the last START_TIMER
    completions,          \* natural completions since the last START_TIMER
    replaced              \* the last step was a START_TIMER that found a
                          \* session still live

\* An observing popup (popup script): it opens, shows the timer view, polls
\* and closes, and its user never presses start, pause, resume or stop.
VARIABLES
    obsView,      \* "closed", "lifeclock", "switching" (all views hidden until
                  \* the callback of switchView('timer')), "timer", "countdown"
    obsPolling,   \* timerInterval of the popup is set: startCountdown polls
    obsPending,   \* GET_TIMER_STATE answers on their way to a callback, each
                  \* with what the callback reads of it
    obsStopSent,  \* a STOP_TIMER sent by stopTimer and not handled yet
    obsLast       \* the popup step just taken, "none" after any other step

schedVars == <<globalTimerState, globalIsPaused, globalTimerInterval,
               liveIntervals, storage, notified, lastMsg, response, phase,
               config, ticks, commanded, completions, replaced>>

uiVars == <<obsView, obsPolling, obsPending, obsStopSent, obsLast>>

\* The gateway server (POST /api/analyzeDream behind dreamAnalysisLimiter).
VARIABLES
    gwHits,   \* the limiter's store: hits of each client in its current window
    gwLast,   \* the last request handled and the one response it received
    gwAge,    \* time steps since each client's current window began
    gwWatch,  \* a stretch of windowMs under watch for one client: how old
              \* it is and how many of the client's requests passed the
              \* limiter in it (Null: no stretch is under watch)
    gwEvent   \* the gateway step just taken: "request", "time" or "watch"

gwVars == <<gwHits, gwLast, gwAge, gwWatch, gwEvent>>

\* The dream journal of the popup (analyze button and local analysis).
VARIABLES
    dreamEntry,   \* dreamEntry.value, the text in the dream field
    dreamView,    \* what dreamResults shows: "hidden", "loading",
                  \* "analysis" or "error"
    dreamBtn,     \* analyzeDreamBtn is enabled
    dreamText,    \* the trimmed text the click handler works on
    dreamCall,    \* where the click handler stands: "none", "pending" (the
                  \* fetch of analyzeDreamWithAPI is out), "local" (the timer
                  \* of analyzeDreamLocally is out), "settled"
    dreamOutcome, \* how the fetch ended
    dreamWait,    \* seconds the pending fetch has been waited for
    analysis      \* the object handed to displayDreamAnalysis (Null: none)

dreamVars == <<dreamEntry, dreamView, dreamBtn, dreamText, dreamCall,
               dreamOutcome, dreamWait, analysis>>

\* The popup whose user works the timer: view switches, start, stop, and the
\* polling loops of startCountdown.
VARIABLES
    popView,        \* the view shown: "lifeclock", "timer", "countdown",
                    \* "journal"
    popHasTimer,    \* currentTimer of the popup holds a timer object
    popHandle,      \* timerInterval of the popup: "null" or "set"
    popLive,        \* setInterval loops of the popup not yet cleared
    popStopPending, \* a poll callback has called stopTimer and its
                    \* STOP_TIMER is not handled yet
    popLast         \* the popup step just taken, "none" after any other

popVars == <<popView, popHasTimer, popHandle, popLive, popStopPending, popLast>>

\* The journal API client (JournalAPI.analyzeDream over _makeRequest).
VARIABLES
    apiText,     \* the dreamText argument of the last analyzeDream call
    apiPayload,  \* payload.dreamText of the request it sent (Null: none sent)
    apiPhase,    \* "idle", "fetching" (the fetch of _makeRequest is out),
                 \* "settled" (_makeRequest has returned or thrown)
    apiTimer,    \* the timeout timer of the request: "none", "pending",
                 \* "cleared" or "fired"
    apiAborted,  \* controller.abort() has been called for the request
    apiWait,     \* seconds the fetch has been out
    apiReturn,   \* what _makeRequest returned or threw
    apiResult    \* what analyzeDream returned or threw

apiVars == <<apiText, apiPayload, apiPhase, apiTimer, apiAborted, apiWait,
             apiReturn, apiResult>>

\* DreamResultsUI instances on one document.
VARIABLES
    container,     \* this.container of each instance: "null" or an element
    isVisible,     \* this.isVisible of each instance
    styleElement,  \* the document has the element 'dream-results-styles'
    lastCall       \* the method call just made and whether it threw

styleVars == <<container, isVisible, styleElement, lastCall>>

clientVars == <<popVars, apiVars, styleVars>>

vars == <<schedVars, uiVars, gwVars, dreamVars, clientVars>>

\* JavaScript null, for globalTimerState and for the stored currentTimer.
Null == [null |-> TRUE]

\* No sendResponse in the step (the interval callback answers nobody).
NoResponse == [none |-> TRUE]

\* sendResponse({ success: true })
Ack == [success |-> TRUE]

\* chrome.storage.local with neither key present.
EmptyStorage == [keys |-> {}, currentTimer |-> Null, isPaused |-> FALSE]

\* chrome.storage.local.set({ currentTimer: s, isPaused: p })
StorageSet(s, p) ==
    [keys |-> {"currentTimer", "isPaused"}, currentTimer |-> s, isPaused |-> p]

\* The start button's validation: what the popup, the only sender of
\* START_TIMER, lets through to the scheduler.
startBtnValidNoSegmentCheck(total, segment, grace) ==
    /\ total > 0
    /\ segment > 0
    /\ ~(grace < 0)

startBtnValid(total, segment, grace) ==
    /\ total > 0
    /\ segment > 0
    /\ ~(grace < 0)
    /\ ~(segment >= total)

\* The TimerState literal built by startSegmentedTimer (startTime, the wall
\* clock reading, is left out: nothing in the scheduler reads it).
NewTimerStateWrongRemainder(total, segment, grace) ==
    [total         |-> total,
     segment       |-> segment,
     grace         |-> grace,
     fullBlock     |-> segment + grace,
     blocks        |-> total \div (segment + grace),
     remainingTime |-> total % segment,
     currentBlock  |-> 0,
     currentTime   |-> segment * SecondsPerMinute,
     isWorkTime    |-> TRUE]

NewTimerState(total, segment, grace) ==
    [total         |-> total,
     segment       |-> segment,
     grace         |-> grace,
     fullBlock     |-> segment + grace,
     blocks        |-> total \div (segment + grace),
     remainingTime |-> total % (segment + grace),
     currentBlock  |-> 0,
     currentTime   |-> segment * SecondsPerMinute,
     isWorkTime    |-> TRUE]

\* The interval callback's first line: nothing to do without a state, or
\* while paused.
TickSkipsIgnoresPause(s, paused) == s = Null

TickSkips(s, paused) == s = Null \/ paused

\* Work time finished: does a break follow?
BreakFollowsWorkAlways(s) == s.currentBlock < s.blocks

BreakFollowsWork(s) ==
    \/ s.currentBlock < s.blocks - 1
    \/ (s.currentBlock = s.blocks - 1 /\ s.remainingTime > 0)

\* "Save state every 10 seconds": the callback's closing test on the state
\* it leaves.
SaveDueEveryMinute(s) == s.currentTime % SecondsPerMinute = 0

SaveDue(s) == s.currentTime % SaveEvery = 0

\* The body of the interval callback from the decrement to the end of the
\* phase switch, on TimerState s. timer = Null is the "Timer complete"
\* return (after stopBackgroundTimer); note is the notification title.
CountdownStepKeepsNegative(s) ==
    [timer |-> [s EXCEPT !.currentTime = @ - 1], note |-> "none"]

CountdownStepBreakRepeatsSegment(s) ==
    LET d == [s EXCEPT !.currentTime = @ - 1] IN
    IF d.currentTime <= 0
    THEN IF d.isWorkTime
         THEN IF BreakFollowsWork(d)
              THEN [timer |-> [d EXCEPT !.isWorkTime = FALSE,
                                        !.currentTime = d.grace * SecondsPerMinute],
                    note |-> "Break Time"]
              ELSE [timer |-> Null, note |-> "Session Complete"]
         ELSE LET n == [d EXCEPT !.currentBlock = @ + 1, !.isWorkTime = TRUE] IN
              [timer |-> [n EXCEPT !.currentTime = n.segment * SecondsPerMinute],
               note |-> "Segment"]
    ELSE [timer |-> d, note |-> "none"]

CountdownStepBreakAdvancesBlock(s) ==
    LET d == [s EXCEPT !.currentTime = @ - 1] IN
    IF d.currentTime <= 0
    THEN IF d.isWorkTime
         THEN IF BreakFollowsWork(d)
              THEN [timer |-> [d EXCEPT !.isWorkTime = FALSE,
                                        !.currentBlock = @ + 1,
                                        !.currentTime = d.grace * SecondsPerMinute],
                    note |-> "Break Time"]
              ELSE [timer |-> Null, note |-> "Session Complete"]
         ELSE LET n == [d EXCEPT !.currentBlock = @ + 1, !.isWorkTime = TRUE] IN
              IF n.currentBlock >= n.blocks
              THEN IF n.remainingTime > 0
                   THEN [timer |-> [n EXCEPT !.currentTime =
                                        n.remainingTime * SecondsPerMinute],
                         note |-> "Final Segment"]
                   ELSE [timer |-> Null, note |-> "Session Complete"]
              ELSE [timer |-> [n EXCEPT !.currentTime =
                                   n.segment * SecondsPerMinute],
                    note |-> "Segment"]
    ELSE [timer |-> d, note |-> "none"]

CountdownStep(s) ==
    LET d == [s EXCEPT !.currentTime = @ - 1] IN
    IF d.currentTime <= 0
    THEN IF d.isWorkTime
         THEN IF BreakFollowsWork(d)
              THEN [timer |-> [d EXCEPT !.isWorkTime = FALSE,
                                        !.currentTime = d.grace * SecondsPerMinute],
                    note |-> "Break Time"]
              ELSE [timer |-> Null, note |-> "Session Complete"]
         ELSE LET n == [d EXCEPT !.currentBlock = @ + 1, !.isWorkTime = TRUE] IN
              IF n.currentBlock >= n.blocks
              THEN IF n.remainingTime > 0
                   THEN [timer |-> [n EXCEPT !.currentTime =
                                        n.remainingTime * SecondsPerMinute],
                         note |-> "Final Segment"]
                   ELSE [timer |-> Null, note |-> "Session Complete"]
              ELSE [timer |-> [n EXCEPT !.currentTime =
                                   n.segment * SecondsPerMinute],
                    note |-> "Segment"]
    ELSE [timer |-> d, note |-> "none"]

\* The numbers in the title of the notification that opens a regular work
\* segment, read from the state the callback has just written:
\* "Segment <n> of <of>".
SegmentTitle(s) == [n |-> s.currentBlock + 1, of |-> s.blocks]

Init ==
    /\ popView = "lifeclock"
    /\ popHasTimer = FALSE
    /\ popHandle = "null"
    /\ popLive = 0
    /\ popStopPending = FALSE
    /\ popLast = "none"
    /\ apiText = Null
    /\ apiPayload = Null
    /\ apiPhase = "idle"
    /\ apiTimer = "none"
    /\ apiAborted = FALSE
    /\ apiWait = 0
    /\ apiReturn = Null
    /\ apiResult = Null
    /\ container = [i \in Instances |-> "null"]
    /\ isVisible = [i \in Instances |-> FALSE]
    /\ styleElement = FALSE
    /\ lastCall = Null
    /\ dreamEntry = ""
    /\ dreamView = "hidden"
    /\ dreamBtn = TRUE
    /\ dreamText = ""
    /\ dreamCall = "none"
    /\ dreamOutcome = Null
    /\ dreamWait = 0
    /\ analysis = Null
    /\ gwHits = [c \in 1..MaxClients |-> 0]
    /\ gwLast = Null
    /\ gwAge = [c \in 1..MaxClients |-> 0]
    /\ gwWatch = Null
    /\ gwEvent = "none"
    /\ obsView = "closed"
    /\ obsPolling = FALSE
    /\ obsPending = {}
    /\ obsStopSent = FALSE
    /\ obsLast = "none"
    /\ globalTimerState = Null
    /\ globalIsPaused = FALSE
    /\ globalTimerInterval = "null"
    /\ liveIntervals = 0
    /\ storage = EmptyStorage
    /\ notified = "none"
    /\ lastMsg = "none"
    /\ response = NoResponse
    /\ phase = [work |-> FALSE, seconds |-> 0]
    /\ config = Null
    /\ ticks = 0
    /\ commanded = FALSE
    /\ completions = 0
    /\ replaced = FALSE

\* START_TIMER: startSegmentedTimer, then sendResponse({ success: true }).
startSegmentedTimerKeepsPause(total, segment, grace) ==
    /\ startBtnValid(total, segment, grace)
    /\ globalTimerState' = NewTimerState(total, segment, grace)
    /\ UNCHANGED globalIsPaused
    /\ storage' = StorageSet(globalTimerState', FALSE)
    /\ notified' = "Session Started"
    /\ liveIntervals' =
           (IF globalTimerInterval # "null" THEN liveIntervals - 1
            ELSE liveIntervals) + 1
    /\ globalTimerInterval' = "set"
    /\ phase' = [work |-> TRUE, seconds |-> globalTimerState'.currentTime]
    /\ config' = [total |-> total, segment |-> segment, grace |-> grace]
    /\ ticks' = 0
    /\ commanded' = FALSE
    /\ completions' = 0
    /\ replaced' = (globalTimerState # Null)
    /\ lastMsg' = "START_TIMER"
    /\ response' = Ack

startSegmentedTimerLeaksInterval(total, segment, grace) ==
    /\ startBtnValid(total, segment, grace)
    /\ globalTimerState' = NewTimerState(total, segment, grace)
    /\ globalIsPaused' = FALSE
    /\ storage' = StorageSet(globalTimerState', FALSE)
    /\ notified' = "Session Started"
    /\ liveIntervals' = liveIntervals + 1
    /\ globalTimerInterval' = "set"
    /\ phase' = [work |-> TRUE, seconds |-> globalTimerState'.currentTime]
    /\ config' = [total |-> total, segment |-> segment, grace |-> grace]
    /\ ticks' = 0
    /\ commanded' = FALSE
    /\ completions' = 0
    /\ replaced' = (globalTimerState # Null)
    /\ lastMsg' = "START_TIMER"
    /\ response' = Ack

startSegmentedTimer(total, segment, grace) ==
    /\ startBtnValid(total, segment, grace)
    /\ globalTimerState' = NewTimerState(total, segment, grace)
    /\ globalIsPaused' = FALSE
    /\ storage' = StorageSet(globalTimerState', FALSE)
    /\ notified' = "Session Started"
    /\ liveIntervals' =
           (IF globalTimerInterval # "null" THEN liveIntervals - 1
            ELSE liveIntervals) + 1
    /\ globalTimerInterval' = "set"
    /\ phase' = [work |-> TRUE, seconds |-> globalTimerState'.currentTime]
    /\ config' = [total |-> total, segment |-> segment, grace |-> grace]
    /\ ticks' = 0
    /\ commanded' = FALSE
    /\ completions' = 0
    /\ replaced' = (globalTimerState # Null)
    /\ lastMsg' = "START_TIMER"
    /\ response' = Ack

StartTimer ==
    \E total \in 0..MaxTotal, segment \in 0..MaxTotal, grace \in 0..MaxGrace :
        startSegmentedTimer(total, segment, grace)

\* The start button clicked with values its validation refuses: an alert and
\* an early return, before any message is sent.
RefusedInputs ==
    {in \in ((0 - 1)..MaxTotal) \X ((0 - 1)..MaxTotal) \X ((0 - 1)..MaxGrace) :
        ~startBtnValid(in[1], in[2], in[3])}

StartRejected ==
    /\ RefusedInputs # {}
    /\ lastMsg' = "START_REJECTED"
    /\ notified' = "none"
    /\ response' = NoResponse
    /\ replaced' = FALSE
    /\ UNCHANGED <<globalTimerState, globalIsPaused, globalTimerInterval,
                   liveIntervals, storage, phase, config, ticks, commanded,
                   completions>>

\* PAUSE_TIMER: pauseBackgroundTimer, then the acknowledgment.
pauseBackgroundTimerResetsPhase ==
    /\ globalIsPaused' = TRUE
    /\ globalTimerState' =
           IF globalTimerState = Null THEN Null
           ELSE [globalTimerState EXCEPT !.currentTime = phase.seconds]
    /\ storage' = StorageSet(globalTimerState', TRUE)
    /\ notified' = "none"
    /\ lastMsg' = "PAUSE_TIMER"
    /\ response' = Ack
    /\ commanded' = TRUE
    /\ ticks' = 0
    /\ UNCHANGED <<globalTimerInterval, liveIntervals, phase, config,
                   completions>>
    /\ replaced' = FALSE

pauseBackgroundTimer ==
    /\ globalIsPaused' = TRUE
    /\ storage' = StorageSet(globalTimerState, TRUE)
    /\ notified' = "none"
    /\ lastMsg' = "PAUSE_TIMER"
    /\ response' = Ack
    /\ commanded' = TRUE
    /\ ticks' = 0
    /\ UNCHANGED <<globalTimerState, globalTimerInterval, liveIntervals,
                   phase, config, completions>>
    /\ replaced' = FALSE

\* RESUME_TIMER: resumeBackgroundTimer, then the acknowledgment.
resumeBackgroundTimer ==
    /\ globalIsPaused' = FALSE
    /\ storage' = StorageSet(globalTimerState, FALSE)
    /\ notified' = "none"
    /\ lastMsg' = "RESUME_TIMER"
    /\ response' = Ack
    /\ commanded' = TRUE
    /\ ticks' = 0
    /\ UNCHANGED <<globalTimerState, globalTimerInterval, liveIntervals,
                   phase, config, completions>>
    /\ replaced' = FALSE

StopEffectsKeepsPause ==
    /\ liveIntervals' =
           IF globalTimerInterval # "null" THEN liveIntervals - 1
           ELSE liveIntervals
    /\ globalTimerInterval' = "null"
    /\ globalTimerState' = Null
    /\ UNCHANGED globalIsPaused
    /\ storage' = EmptyStorage

\* What stopBackgroundTimer assigns: the interval cleared, the state and the
\* flag reset, both storage keys removed.
StopEffects ==
    /\ liveIntervals' =
           IF globalTimerInterval # "null" THEN liveIntervals - 1
           ELSE liveIntervals
    /\ globalTimerInterval' = "null"
    /\ globalTimerState' = Null
    /\ globalIsPaused' = FALSE
    /\ storage' = EmptyStorage

\* STOP_TIMER: stopBackgroundTimer, then the acknowledgment.
stopBackgroundTimer ==
    /\ StopEffects
    /\ notified' = "none"
    /\ lastMsg' = "STOP_TIMER"
    /\ response' = Ack
    /\ commanded' = TRUE
    /\ ticks' = 0
    /\ UNCHANGED <<phase, config, completions>>
    /\ replaced' = FALSE

\* GET_TIMER_STATE: the snapshot handed to sendResponse.
GetTimerStateFromStorage ==
    /\ response' = [currentTimer |-> storage.currentTimer,
                    isPaused |-> storage.isPaused]
    /\ notified' = "none"
    /\ lastMsg' = "GET_TIMER_STATE"
    /\ UNCHANGED <<globalTimerState, globalIsPaused, globalTimerInterval,
                   liveIntervals, storage, phase, config, ticks,
                   commanded, completions>>
    /\ replaced' = FALSE

GetTimerState ==
    /\ response' = [currentTimer |-> globalTimerState, isPaused |-> globalIsPaused]
    /\ notified' = "none"
    /\ lastMsg' = "GET_TIMER_STATE"
    /\ UNCHANGED <<globalTimerState, globalIsPaused, globalTimerInterval,
                   liveIntervals, storage, phase, config, ticks,
                   commanded, completions>>
    /\ replaced' = FALSE

\* One firing of the setInterval callback of startBackgroundCountdown.
Tick ==
    /\ liveIntervals > 0
    /\ lastMsg' = "TICK"
    /\ response' = NoResponse
    /\ ticks' = IF commanded THEN 0 ELSE ticks + 1
    /\ UNCHANGED <<commanded, config>>
    /\ replaced' = FALSE
    /\ IF TickSkips(globalTimerState, globalIsPaused)
       THEN /\ notified' = "none"
            /\ UNCHANGED <<globalTimerState, globalIsPaused, globalTimerInterval,
                           liveIntervals, storage, phase, completions>>
       ELSE LET r == CountdownStep(globalTimerState) IN
            /\ notified' = r.note
            /\ IF r.timer = Null
               THEN /\ StopEffects
                    /\ completions' = completions + 1
                    /\ UNCHANGED phase
               ELSE /\ globalTimerState' = r.timer
                    /\ phase' =
                           IF r.note = "none" THEN phase
                           ELSE [work    |-> r.timer.isWorkTime,
                                 seconds |-> r.timer.currentTime]
                    /\ storage' =
                           IF SaveDue(r.timer)
                           THEN StorageSet(r.timer, globalIsPaused)
                           ELSE storage
                    /\ UNCHANGED <<globalIsPaused, globalTimerInterval,
                                   liveIntervals, completions>>

\* The background script is loaded afresh (the browser or the extension's
\* background context restarts): its three globals take their initial values
\* and nothing reads chrome.storage.local, which survives.
Restart ==
    /\ globalTimerState' = Null
    /\ globalIsPaused' = FALSE
    /\ globalTimerInterval' = "null"
    /\ liveIntervals' = 0
    /\ notified' = "none"
    /\ lastMsg' = "RESTART"
    /\ response' = NoResponse
    /\ commanded' = TRUE
    /\ ticks' = 0
    /\ UNCHANGED <<storage, phase, config, completions>>
    /\ replaced' = FALSE

\* The scheduler and the start button alone: no popup observes.
Next ==
    \/ StartTimer /\ UNCHANGED <<uiVars, gwVars, dreamVars, clientVars>>
    \/ StartRejected /\ UNCHANGED <<uiVars, gwVars, dreamVars, clientVars>>
    \/ Restart /\ UNCHANGED <<uiVars, gwVars, dreamVars, clientVars>>
    \/ pauseBackgroundTimer /\ UNCHANGED <<uiVars, gwVars, dreamVars, clientVars>>
    \/ resumeBackgroundTimer /\ UNCHANGED <<uiVars, gwVars, dreamVars, clientVars>>
    \/ stopBackgroundTimer /\ UNCHANGED <<uiVars, gwVars, dreamVars, clientVars>>
    \/ GetTimerState /\ UNCHANGED <<uiVars, gwVars, dreamVars, clientVars>>
    \/ Tick /\ UNCHANGED <<uiVars, gwVars, dreamVars, clientVars>>

Spec == Init /\ [][Next]_vars

\* ------------------------------------------------------ the observing popup
\* isValidTimer of the popup, on a TimerState object (every typeof test
\* passes on the objects the scheduler sends).
isValidTimer(timer) ==
    /\ timer.total > 0
    /\ timer.segment > 0
    /\ timer.grace >= 0
    /\ timer.currentBlock >= 0
    /\ timer.currentTime > 0
    /\ timer.currentBlock <= timer.blocks
    /\ timer.currentTime >= 0

\* switchView('timer'): the answer is taken as the running session.
SnapshotTrusted(resp) ==
    resp.currentTimer # Null /\ isValidTimer(resp.currentTimer)

\* switchView('timer'): the inner test that picks the countdown view.
ShowsCountdown(timer) ==
    \/ timer.currentTime > 0
    \/ timer.currentBlock < timer.blocks - 1
    \/ (timer.currentBlock = timer.blocks - 1 /\ timer.remainingTime > 0)

\* The poll callback's "timer completed" test.
PollSeesEnded(timer) ==
    /\ timer.currentTime <= 0
    /\ timer.currentBlock >= timer.blocks
    /\ ~timer.isWorkTime

\* getTotalRemainingTime of the popup, on the snapshot it holds as
\* currentTimer: the seconds it takes the session still to have.
getTotalRemainingTime(timer) ==
    IF timer = Null THEN 0
    ELSE timer.currentTime +
         (IF timer.isWorkTime
          THEN IF timer.currentBlock < timer.blocks - 1
               THEN timer.grace * 60 +
                    (timer.blocks - timer.currentBlock - 1) * timer.fullBlock * 60
               ELSE IF timer.currentBlock = timer.blocks - 1 /\ timer.remainingTime > 0
               THEN timer.grace * 60
               ELSE 0
          ELSE IF timer.currentBlock < timer.blocks
               THEN (timer.blocks - timer.currentBlock - 1) * timer.fullBlock * 60
               ELSE 0)

\* updateCountdownDisplay: the elapsed seconds behind the progress bar.
totalElapsedSeconds(timer) == (timer.total * 60) - getTotalRemainingTime(timer)

\* updateCountdownDisplay: Math.min((totalElapsedSeconds / (total * 60)) * 100,
\* 100), kept exact as the fraction num / den with den = total * 60, which
\* is the same number for every snapshot of one session.
progressPercent(timer) ==
    LET den == timer.total * 60
        num == totalElapsedSeconds(timer) * 100
    IN  [num |-> IF num <= 100 * den THEN num ELSE 100 * den, den |-> den]

\* The popup is opened: the life clock view shows first.
ObsOpen ==
    /\ obsView = "closed"
    /\ obsView' = "lifeclock"
    /\ obsLast' = "open"
    /\ UNCHANGED <<obsPolling, obsPending, obsStopSent>>
    /\ UNCHANGED schedVars

\* switchView('timer'): all views hidden, GET_TIMER_STATE sent and answered.
ObsSwitchView ==
    /\ obsView # "closed"
    /\ \A p \in obsPending : p.kind # "switchView"
    /\ GetTimerState
    /\ obsView' = "switching"
    /\ obsPending' = obsPending \cup
           {[kind      |-> "switchView",
             trusted   |-> SnapshotTrusted(response'),
             countdown |-> /\ SnapshotTrusted(response')
                           /\ ShowsCountdown(response'.currentTimer),
             stop      |-> FALSE]}
    /\ obsLast' = "switchView"
    /\ UNCHANGED <<obsPolling, obsStopSent>>

\* The callback of switchView('timer'): countdown view and startCountdown,
\* or the timer form.
ObsSwitchViewCallback ==
    \E p \in obsPending :
        /\ p.kind = "switchView"
        /\ obsPending' = obsPending \ {p}
        /\ obsView' = IF p.countdown THEN "countdown" ELSE "timer"
        /\ obsPolling' = (obsPolling \/ p.countdown)
        /\ obsLast' = "switchViewCallback"
        /\ UNCHANGED obsStopSent
        /\ UNCHANGED schedVars

\* One firing of the popup's poll interval: GET_TIMER_STATE sent and answered.
ObsPollSend ==
    /\ obsPolling
    /\ \A p \in obsPending : p.kind # "poll"
    /\ GetTimerState
    /\ obsPending' = obsPending \cup
           {[kind      |-> "poll",
             trusted   |-> FALSE,
             countdown |-> FALSE,
             stop      |-> \/ response'.currentTimer = Null
                           \/ PollSeesEnded(response'.currentTimer)]}
    /\ obsLast' = "poll"
    /\ UNCHANGED <<obsView, obsPolling, obsStopSent>>

\* The poll callback: display refreshed, or stopTimer() when the answer
\* carries no timer (or an ended one), which sends STOP_TIMER.
ObsPollCallback ==
    \E p \in obsPending :
        /\ p.kind = "poll"
        /\ obsPending' = obsPending \ {p}
        /\ obsStopSent' = (obsStopSent \/ p.stop)
        /\ obsLast' = "pollCallback"
        /\ UNCHANGED <<obsView, obsPolling>>
        /\ UNCHANGED schedVars

\* The STOP_TIMER of stopTimer reaches the scheduler; on its acknowledgment
\* the popup, if still open, clears its poll interval and shows the form.
ObsStopDelivered ==
    /\ obsStopSent
    /\ stopBackgroundTimer
    /\ obsStopSent' = FALSE
    /\ obsPolling' = FALSE
    /\ obsView' = IF obsView = "closed" THEN "closed" ELSE "timer"
    /\ obsLast' = "stopDelivered"
    /\ UNCHANGED obsPending

\* The popup is closed: its intervals and callbacks are gone; a message
\* already sent is still delivered.
ObsClose ==
    /\ obsView # "closed"
    /\ obsView' = "closed"
    /\ obsPolling' = FALSE
    /\ obsPending' = {}
    /\ obsLast' = "close"
    /\ UNCHANGED obsStopSent
    /\ UNCHANGED schedVars

\* A step of the scheduler or of another surface, as the observer sees it.
ObsIdle ==
    /\ obsLast' = "none"
    /\ UNCHANGED <<obsView, obsPolling, obsPending, obsStopSent>>

\* The start button of another popup: inputs validated, START_TIMER sent.
StartTimerUi ==
    \E total \in 0..UiMaxTotal, segment \in 0..UiMaxTotal,
       grace \in 0..UiMaxGrace :
        startSegmentedTimer(total, segment, grace)

\* The scheduler, the commands of other surfaces, and the observing popup.
NextUI ==
    \/ StartTimerUi /\ ObsIdle /\ UNCHANGED <<gwVars, dreamVars, clientVars>>
    \/ pauseBackgroundTimer /\ ObsIdle /\ UNCHANGED <<gwVars, dreamVars, clientVars>>
    \/ resumeBackgroundTimer /\ ObsIdle /\ UNCHANGED <<gwVars, dreamVars, clientVars>>
    \/ stopBackgroundTimer /\ ObsIdle /\ UNCHANGED <<gwVars, dreamVars, clientVars>>
    \/ Tick /\ ObsIdle /\ UNCHANGED <<gwVars, dreamVars, clientVars>>
    \/ ObsOpen /\ UNCHANGED <<gwVars, dreamVars, clientVars>>
    \/ ObsSwitchView /\ UNCHANGED <<gwVars, dreamVars, clientVars>>
    \/ ObsSwitchViewCallback /\ UNCHANGED <<gwVars, dreamVars, clientVars>>
    \/ ObsPollSend /\ UNCHANGED <<gwVars, dreamVars, clientVars>>
    \/ ObsPollCallback /\ UNCHANGED <<gwVars, dreamVars, clientVars>>
    \/ ObsStopDelivered /\ UNCHANGED <<gwVars, dreamVars, clientVars>>
    \/ ObsClose /\ UNCHANGED <<gwVars, dreamVars, clientVars>>

SpecUI == Init /\ [][NextUI]_vars

\* --------------------------------------------------------------- the gateway
\* The dreamText lengths requests are sent with: around both limits, and 0.
DreamLengths ==
    {0} \cup ((MinDreamText - LenMargin)..(MinDreamText + LenMargin))
        \cup ((MaxDreamText - LenMargin)..(MaxDreamText + LenMargin))

\* Request bodies: dreamText missing, or a string of some length.
Bodies ==
    {[hasText |-> FALSE, len |-> 0]} \cup
    {[hasText |-> TRUE, len |-> n] : n \in DreamLengths}

\* The five keys of the analysis object the completion is asked for.
FiveKeys == {"emotions", "themes", "interpretation", "symbols", "confidence"}

\* What the caller must never be shown: texts only the completion service
\* knows (the message of its error, or the raw completion).
UpstreamTexts == {"upstream text A", "upstream text B"}

\* An analysis object as the completion may hold it: each key is there with
\* a value of the asked type ("ok"), absent, or of another type; confidence
\* may also be a number outside [0, 1].
AllOk == [k \in FiveKeys |-> "ok"]

ObjectFields ==
    {AllOk} \cup {[AllOk EXCEPT ![k] = f] : k \in FiveKeys, f \in {"missing", "wrong"}}
            \cup {[AllOk EXCEPT !["confidence"] = "out_of_range"]}

\* No call was made.
NotCalled ==
    [kind |-> "not_called", code |-> "none", text |-> "none", json |-> FALSE,
     object |-> FALSE, fields |-> AllOk, extra |-> FALSE]

\* The completion that passes every check of the handler.
ValidCompletion ==
    [kind |-> "content", code |-> "none", text |-> "json", json |-> TRUE,
     object |-> TRUE, fields |-> AllOk, extra |-> FALSE]

\* What openai.chat.completions.create does for one call: it throws (with one
\* of the two codes the handler knows, or another error, and a message of
\* its own), or it returns a completion whose content is not JSON, is JSON
\* but no object, or is an object, with or without keys beyond the five.
UpstreamOutcomes ==
    {[NotCalled EXCEPT !.kind = "throws", !.code = c, !.text = m] :
        c \in {"insufficient_quota", "rate_limit_exceeded", "other"},
        m \in UpstreamTexts}
    \cup {[ValidCompletion EXCEPT !.json = FALSE, !.object = FALSE, !.text = m] :
        m \in UpstreamTexts}
    \cup {[ValidCompletion EXCEPT !.object = FALSE]}
    \cup {[ValidCompletion EXCEPT !.fields = f, !.extra = e] :
        f \in ObjectFields, e \in BOOLEAN}

\* The client whose requests, of every shape, the handler is followed on.
HandlerClient == MaxClients

\* DreamAnalysisSchema.safeParse(req.body), mapped to "path: message"; "" when
\* the body passes.
ValidationErrorsExclusiveMin(body) ==
    IF ~body.hasText THEN "dreamText: Required"
    ELSE IF body.len <= MinDreamText
        THEN "dreamText: Dream text must be at least 20 characters"
    ELSE IF body.len > MaxDreamText
        THEN "dreamText: Dream text cannot exceed 2000 characters"
    ELSE ""

ValidationErrors(body) ==
    IF ~body.hasText THEN "dreamText: Required"
    ELSE IF body.len < MinDreamText
        THEN "dreamText: Dream text must be at least 20 characters"
    ELSE IF body.len > MaxDreamText
        THEN "dreamText: Dream text cannot exceed 2000 characters"
    ELSE ""

\* A response that carries no data field.
Failure(status, called, error) ==
    [status |-> status, success |-> FALSE, called |-> called, error |-> error,
     data |-> {}]

\* The catch block of the handler: the response to a thrown error.
CatchResponseLeaksMessage(error) ==
    IF error.code = "insufficient_quota"
    THEN Failure(429, TRUE, "API quota exceeded. Please try again later.")
    ELSE IF error.code = "rate_limit_exceeded"
    THEN Failure(429, TRUE, "Rate limit exceeded. Please try again in a moment.")
    ELSE Failure(500, TRUE, error.text)

CatchResponse(error) ==
    IF error.code = "insufficient_quota"
    THEN Failure(429, TRUE, "API quota exceeded. Please try again later.")
    ELSE IF error.code = "rate_limit_exceeded"
    THEN Failure(429, TRUE, "Rate limit exceeded. Please try again in a moment.")
    ELSE Failure(500, TRUE, "Internal server error during dream analysis")

\* responseValidation: safeParse of the parsed content against the five-key
\* object schema. On success its data holds the five keys and no other.
responseValidationAcceptsAnyObject(completion) ==
    [success |-> completion.object,
     data    |-> {k \in FiveKeys : completion.fields[k] # "missing"}
                 \cup (IF completion.extra THEN {"extra"} ELSE {})]

responseValidation(completion) ==
    [success |-> /\ completion.object
                 /\ \A k \in FiveKeys : completion.fields[k] = "ok",
     data    |-> {k \in FiveKeys : completion.fields[k] = "ok"}]

\* finalValidation: DreamAnalysisResponseSchema on the response about to be
\* sent; its data object requires the five keys and timestamp.
finalValidation(data) ==
    FiveKeys \cup {"timestamp"} \subseteq data

\* The try block of the route handler: the responses it sends, in order,
\* and whether control leaves it by an exception (the upstream call's).
\* Every send but the last is behind a return.
TryBlockNoReturnOnInvalid(body, upstream) ==
    LET invalid == IF ValidationErrors(body) # ""
                   THEN <<Failure(400, FALSE,
                                  "Validation failed: " \o ValidationErrors(body))>>
                   ELSE <<>>
    IN  IF upstream.kind = "throws"
        THEN [sent |-> invalid, threw |-> TRUE]
        ELSE IF ~upstream.json
        THEN [sent |-> invalid \o
                       <<Failure(500, TRUE, "Failed to parse dream analysis response")>>,
              threw |-> FALSE]
        ELSE IF ~responseValidation(upstream).success
        THEN [sent |-> invalid \o
                       <<Failure(500, TRUE, "Invalid dream analysis response format")>>,
              threw |-> FALSE]
        ELSE [sent |-> invalid \o
                       <<[status |-> 200, success |-> TRUE, called |-> TRUE,
                          error |-> "",
                          data |-> responseValidation(upstream).data
                                       \cup {"timestamp"}]>>,
              threw |-> FALSE]

TryBlock(body, upstream) ==
    IF ValidationErrors(body) # ""
    THEN [sent |-> <<Failure(400, FALSE,
                             "Validation failed: " \o ValidationErrors(body))>>,
          threw |-> FALSE]
    ELSE IF upstream.kind = "throws"
    THEN [sent |-> <<>>, threw |-> TRUE]
    ELSE IF ~upstream.json
    THEN [sent |-> <<Failure(500, TRUE, "Failed to parse dream analysis response")>>,
          threw |-> FALSE]
    ELSE IF ~responseValidation(upstream).success
    THEN [sent |-> <<Failure(500, TRUE, "Invalid dream analysis response format")>>,
          threw |-> FALSE]
    ELSE IF ~finalValidation(responseValidation(upstream).data \cup {"timestamp"})
    THEN [sent |-> <<Failure(500, TRUE, "Response validation failed")>>,
          threw |-> FALSE]
    ELSE [sent |-> <<[status |-> 200, success |-> TRUE, called |-> TRUE,
                      error |-> "",
                      data |-> responseValidation(upstream).data
                                   \cup {"timestamp"}]>>,
          threw |-> FALSE]

\* The route handler, for a request the limiter let through: every call of
\* res.json along the control path, the catch block's after the try block's.
HandlerSends(body, upstream) ==
    LET try == TryBlock(body, upstream) IN
    IF try.threw THEN try.sent \o <<CatchResponse(upstream)>> ELSE try.sent

\* What the client receives: the first response written.
HandlerResponse(body, upstream) == Head(HandlerSends(body, upstream))

\* The limiter's answer to a request over the limit.
LimiterResponse ==
    Failure(429, FALSE,
            "Too many dream analysis requests. Please try again in 15 minutes.")

\* POST /api/analyzeDream from one client: the limiter counts the hit and
\* answers itself when the count exceeds max; otherwise the handler runs.
\* The count is kept only up to max + 1, where it has no further effect.
\* The first hit of a window starts it; later hits leave its end in place.
AnalyzeDreamExtendsWindow(client, body, upstream) ==
    LET hits == IF gwHits[client] > RateMax THEN gwHits[client]
                ELSE gwHits[client] + 1
        limited == hits > RateMax
        used == IF limited \/ ValidationErrors(body) # ""
                THEN NotCalled ELSE upstream
    IN  /\ gwHits' = [gwHits EXCEPT ![client] = hits]
        /\ gwLast' = [client   |-> client,
                      body     |-> body,
                      limited  |-> limited,
                      upstream |-> used,
                      sends    |-> IF limited THEN <<LimiterResponse>>
                                   ELSE HandlerSends(body, upstream),
                      response |-> IF limited THEN LimiterResponse
                                   ELSE HandlerResponse(body, upstream)]
        /\ gwAge' = IF limited THEN [gwAge EXCEPT ![client] = 0] ELSE gwAge
        /\ gwWatch' = IF gwWatch # Null /\ gwWatch.client = client /\ ~limited
                      THEN [gwWatch EXCEPT !.passed = @ + 1]
                      ELSE gwWatch
        /\ gwEvent' = "request"

AnalyzeDream(client, body, upstream) ==
    LET hits == IF gwHits[client] > RateMax THEN gwHits[client]
                ELSE gwHits[client] + 1
        limited == hits > RateMax
        used == IF limited \/ ValidationErrors(body) # ""
                THEN NotCalled ELSE upstream
    IN  /\ gwHits' = [gwHits EXCEPT ![client] = hits]
        /\ gwLast' = [client   |-> client,
                      body     |-> body,
                      limited  |-> limited,
                      upstream |-> used,
                      sends    |-> IF limited THEN <<LimiterResponse>>
                                   ELSE HandlerSends(body, upstream),
                      response |-> IF limited THEN LimiterResponse
                                   ELSE HandlerResponse(body, upstream)]
        /\ UNCHANGED gwAge
        /\ gwWatch' = IF gwWatch # Null /\ gwWatch.client = client /\ ~limited
                      THEN [gwWatch EXCEPT !.passed = @ + 1]
                      ELSE gwWatch
        /\ gwEvent' = "request"

\* The clients that send requests while time is followed: two of those the
\* store has room for, which shows one client's count apart from another's.
SendingClients == {1, MaxClients}

\* The completion service produces an outcome only for a request that
\* reaches it: one the limiter and the validation have let through.
ReachesUpstream(client, body) ==
    gwHits[client] < RateMax /\ ValidationErrors(body) = ""

PostAnalyzeDream ==
    \E client \in {HandlerClient}, body \in Bodies :
        \E upstream \in IF ReachesUpstream(client, body)
                         THEN UpstreamOutcomes ELSE {NotCalled} :
            AnalyzeDream(client, body, upstream)

\* Requests of every shape from one client within one window of the limiter.
NextGateway ==
    PostAnalyzeDream /\ UNCHANGED <<schedVars, uiVars, dreamVars, clientVars>>

SpecGateway == Init /\ [][NextGateway]_vars

\* ------------------------------------------------- the limiter through time
\* A request that validation and the completion service both let through.
PostAcceptableDream ==
    \E client \in SendingClients :
        AnalyzeDream(client, [hasText |-> TRUE, len |-> MinDreamText],
                     ValidCompletion)

\* One time step goes by. A window that began WindowTicks steps ago is over:
\* the store forgets the client's count, and the next hit starts a window.
\* A stretch under watch that has lasted WindowTicks steps is closed.
WindowTimePasses ==
    /\ gwAge' = [c \in 1..MaxClients |->
                    IF gwHits[c] = 0 \/ gwAge[c] + 1 >= WindowTicks THEN 0
                    ELSE gwAge[c] + 1]
    /\ gwHits' = [c \in 1..MaxClients |->
                    IF gwHits[c] > 0 /\ gwAge[c] + 1 >= WindowTicks THEN 0
                    ELSE gwHits[c]]
    /\ gwWatch' = IF gwWatch = Null \/ gwWatch.age + 1 >= WindowTicks THEN Null
                  ELSE [gwWatch EXCEPT !.age = @ + 1]
    /\ gwEvent' = "time"
    /\ UNCHANGED gwLast

\* A stretch of windowMs starting now is put under watch for one client.
WatchClient ==
    /\ gwWatch = Null
    /\ \E client \in SendingClients :
           gwWatch' = [client |-> client, age |-> 0, passed |-> 0]
    /\ gwEvent' = "watch"
    /\ UNCHANGED <<gwHits, gwLast, gwAge>>

NextLimiter ==
    \/ PostAcceptableDream /\ UNCHANGED <<schedVars, uiVars, dreamVars, clientVars>>
    \/ WindowTimePasses /\ UNCHANGED <<schedVars, uiVars, dreamVars, clientVars>>
    \/ WatchClient /\ UNCHANGED <<schedVars, uiVars, dreamVars, clientVars>>

SpecLimiter == Init /\ [][NextLimiter]_vars

\* ------------------------------------------------------ the dream journal
\* String.prototype.toLowerCase, on the letters of the Latin alphabet.
LowerOf ==
    [A |-> "a", B |-> "b", C |-> "c", D |-> "d", E |-> "e", F |-> "f",
     G |-> "g", H |-> "h", I |-> "i", J |-> "j", K |-> "k", L |-> "l",
     M |-> "m", N |-> "n", O |-> "o", P |-> "p", Q |-> "q", R |-> "r",
     S |-> "s", T |-> "t", U |-> "u", V |-> "v", W |-> "w", X |-> "x",
     Y |-> "y", Z |-> "z"]

LowerChar(c) == IF c \in DOMAIN LowerOf THEN LowerOf[c] ELSE c

RECURSIVE toLowerCase(_)
toLowerCase(s) ==
    IF s = "" THEN ""
    ELSE LowerChar(SubSeq(s, 1, 1)) \o toLowerCase(SubSeq(s, 2, Len(s)))

\* String.prototype.includes: sub occurs in s as a run of characters.
includes(s, sub) ==
    \E i \in 1..(Len(s) - Len(sub) + 1) : SubSeq(s, i, i + Len(sub) - 1) = sub

\* String.prototype.trim, for texts whose only white space is the blank.
RECURSIVE trim(_)
trim(s) ==
    IF s = "" THEN ""
    ELSE IF SubSeq(s, 1, 1) = " " THEN trim(SubSeq(s, 2, Len(s)))
    ELSE IF SubSeq(s, Len(s), Len(s)) = " " THEN trim(SubSeq(s, 1, Len(s) - 1))
    ELSE s

\* emotionWords and themeWords of analyzeDreamLocally, with the order of
\* their keys.
emotionOrder == <<"fear", "joy", "sadness", "anger", "anxiety">>

emotionWords ==
    [fear    |-> {"scared", "afraid", "terrified", "frightened", "panic"},
     joy     |-> {"happy", "excited", "elated", "cheerful", "delighted"},
     sadness |-> {"sad", "depressed", "crying", "tears", "mourning"},
     anger   |-> {"angry", "mad", "furious", "rage", "hostile"},
     anxiety |-> {"worried", "nervous", "anxious", "stressed", "uneasy"}]

themeOrder == <<"flying", "falling", "chase", "water", "home">>

themeWords ==
    [flying  |-> {"flying", "soaring", "airplane", "wings", "sky"},
     falling |-> {"falling", "dropping", "plunging", "descending"},
     chase   |-> {"chasing", "running", "pursuing", "escaping"},
     water   |-> {"water", "ocean", "swimming", "drowning", "waves"},
     home    |-> {"home", "house", "family", "childhood", "room"}]

\* The forEach over Object.entries: the categories, in key order, one of
\* whose words the lower-cased text includes.
matchedWholeWordsOnly(order, words, text) ==
    LET lower == toLowerCase(text)
    IN  SelectSeq(order, LAMBDA category : lower \in words[category])

matched(order, words, text) ==
    LET lower == toLowerCase(text)
    IN  SelectSeq(order, LAMBDA category :
            \E word \in words[category] : includes(lower, word))

\* interpretations of generateInterpretation: the sentence of each category.
interpretations ==
    [fear    |-> "This dream may reflect underlying anxieties or concerns in your waking life.",
     joy     |-> "This dream suggests positive emotions and a sense of well-being.",
     sadness |-> "This dream may indicate processing of difficult emotions or experiences.",
     anger   |-> "This dream could represent unresolved conflicts or frustrations.",
     anxiety |-> "This dream may reflect stress or worry about current life situations.",
     flying  |-> "Flying dreams often represent freedom, ambition, or a desire to escape limitations.",
     falling |-> "Falling dreams may indicate feelings of losing control or insecurity.",
     chase   |-> "Being chased in dreams often represents avoidance of something in waking life.",
     water   |-> "Water in dreams can symbolize emotions, cleansing, or life transitions.",
     home    |-> "Dreams about home often relate to security, identity, or childhood memories."]

\* Array.prototype.join(' ').
RECURSIVE joinBlank(_)
joinBlank(items) ==
    IF items = <<>> THEN ""
    ELSE IF Len(items) = 1 THEN items[1]
    ELSE items[1] \o " " \o joinBlank(Tail(items))

GenericSentence ==
    "This dream may reflect your subconscious processing of daily experiences."

generateInterpretation(emotions, themes) ==
    LET relevantInterpretations ==
            [i \in 1..Len(emotions \o themes) |-> interpretations[(emotions \o themes)[i]]]
    IN  "Dream analysis suggests: " \o
            (IF Len(relevantInterpretations) > 0
             THEN joinBlank(relevantInterpretations)
             ELSE GenericSentence)

\* extractSymbols: commonSymbols filtered by occurrence, then slice(0, 3).
commonSymbols ==
    <<"house", "car", "animal", "person", "tree", "water", "fire", "door", "window">>

slice3(items) == SubSeq(items, 1, IF Len(items) < 3 THEN Len(items) ELSE 3)

extractSymbolsUnlimited(text) ==
    LET lower == toLowerCase(text)
    IN  SelectSeq(commonSymbols, LAMBDA symbol : includes(lower, symbol))

extractSymbols(text) ==
    LET lower == toLowerCase(text)
    IN  slice3(SelectSeq(commonSymbols, LAMBDA symbol : includes(lower, symbol)))

\* analyzeDreamLocally (timestamp, the wall clock reading, is a fixed mark).
analyzeDreamLocally(text) ==
    LET emotions == matched(emotionOrder, emotionWords, text)
        themes == matched(themeOrder, themeWords, text)
    IN  [emotions       |-> IF Len(emotions) > 0 THEN emotions ELSE <<"neutral">>,
         themes         |-> IF Len(themes) > 0 THEN themes ELSE <<"general">>,
         interpretation |-> generateInterpretation(emotions, themes),
         symbols        |-> extractSymbols(text),
         timestamp      |-> "now"]

\* Words a dream text is typed from: with capitals, with keywords inside
\* longer words, with several symbols in one word, and with no keyword.
DreamWords ==
    {"Flying", "SCARED", "mushroom", "firehouse", "treehouse", "Window",
     "nothing"}

RECURSIVE WordTextsOf(_)
WordTextsOf(n) ==
    IF n = 0 THEN {""}
    ELSE {w : w \in DreamWords} \cup
         {t \o " " \o w : t \in WordTextsOf(n - 1) \ {""}, w \in DreamWords}
         \cup WordTextsOf(n - 1)

WordTexts == WordTextsOf(MaxWords)

\* A text is typed into the empty dream field.
TypeDream(text) ==
    /\ dreamEntry = ""
    /\ dreamCall = "none"
    /\ analysis = Null
    /\ text # ""
    /\ dreamEntry' = text
    /\ UNCHANGED <<dreamView, dreamBtn, dreamText, dreamCall, dreamOutcome,
                   dreamWait, analysis>>

TypeDreamWords == \E text \in WordTexts : TypeDream(text)

\* analyzeDreamLocally applied to the text of the field.
ApplyLocally ==
    /\ dreamEntry # ""
    /\ analysis = Null
    /\ analysis' = analyzeDreamLocally(dreamEntry)
    /\ UNCHANGED <<dreamEntry, dreamView, dreamBtn, dreamText, dreamCall,
                   dreamOutcome, dreamWait>>

NextLocal ==
    \/ TypeDreamWords /\ UNCHANGED <<schedVars, uiVars, gwVars, clientVars>>
    \/ ApplyLocally /\ UNCHANGED <<schedVars, uiVars, gwVars, clientVars>>

SpecLocal == Init /\ [][NextLocal]_vars

\* ------------------------------------------------------- the analyze flow
\* How the fetch of analyzeDreamWithAPI can end: it rejects (no network), or
\* a response arrives: with a 2xx status or another, with a body that is
\* JSON or not, whose success field is true or not.
FetchOutcomes ==
    {[kind |-> "rejects", ok |-> FALSE, json |-> FALSE, success |-> FALSE]}
    \cup {[kind |-> "response", ok |-> o, json |-> j, success |-> s] :
             o \in BOOLEAN, j \in BOOLEAN, s \in BOOLEAN}

\* The data of a successful gateway response.
GatewayData ==
    [emotions       |-> <<"joy">>,
     themes         |-> <<"flying">>,
     interpretation |-> "A wish to rise above daily limits.",
     symbols        |-> <<"sky">>,
     confidence     |-> "0.8",
     timestamp      |-> "then"]

\* analyzeDreamWithAPI once the fetch has ended: it throws, or returns the
\* object { success, data, requestId }.
analyzeDreamWithAPI(outcome) ==
    IF outcome.kind = "rejects" THEN [throws |-> TRUE, value |-> Null]
    ELSE IF ~outcome.ok THEN [throws |-> TRUE, value |-> Null]
    ELSE IF ~outcome.json THEN [throws |-> TRUE, value |-> Null]
    ELSE IF ~outcome.success THEN [throws |-> TRUE, value |-> Null]
    ELSE [throws |-> FALSE,
          value  |-> [success |-> TRUE, data |-> GatewayData, requestId |-> "req"]]

\* displayDreamAnalysis throws a TypeError when it calls join on a field
\* the object does not have.
displayThrows(object) ==
    \/ "emotions" \notin DOMAIN object
    \/ "themes" \notin DOMAIN object

\* Texts typed before the analyze button is clicked: blanks only, too short,
\* and long enough (with blanks around).
FlowTexts ==
    {"   ", " a short dream ", " i dreamt that i was Flying over the firehouse "}

TypeDreamFlow == \E text \in FlowTexts : TypeDream(text)

\* The analyze button is clicked: the two checks of the trimmed text, then
\* the loading state and the fetch.
ClickAnalyze ==
    /\ dreamBtn
    /\ dreamEntry # ""
    /\ dreamCall \in {"none", "settled"}
    /\ dreamText' = trim(dreamEntry)
    /\ dreamOutcome' = Null
    /\ dreamWait' = 0
    /\ analysis' = Null
    /\ UNCHANGED dreamEntry
    /\ IF dreamText' = ""
       THEN /\ dreamView' = "Please enter a dream to analyze."
            /\ dreamBtn' = TRUE
            /\ dreamCall' = "settled"
       ELSE IF Len(dreamText') < MinAnalyzeLength
       THEN /\ dreamView' = "Please provide a more detailed dream description (at least 20 characters)."
            /\ dreamBtn' = TRUE
            /\ dreamCall' = "settled"
       ELSE /\ dreamView' = "loading"
            /\ dreamBtn' = FALSE
            /\ dreamCall' = "pending"

\* The fetch ends. A throw of analyzeDreamWithAPI is caught and the local
\* analysis started; a returned object is handed to displayDreamAnalysis,
\* whose throw the outer catch turns into the error message.
FetchSettlesNoFallback ==
    /\ dreamCall = "pending"
    /\ \E outcome \in FetchOutcomes :
        /\ dreamOutcome' = outcome
        /\ IF analyzeDreamWithAPI(outcome).throws
           THEN /\ dreamCall' = "settled"
                /\ analysis' = Null
                /\ dreamView' = "Failed to analyze dream. Please try again."
                /\ dreamBtn' = TRUE
           ELSE /\ dreamCall' = "settled"
                /\ analysis' = analyzeDreamWithAPI(outcome).value
                /\ dreamView' = IF displayThrows(analysis')
                                THEN "Failed to analyze dream. Please try again."
                                ELSE "analysis"
                /\ dreamBtn' = TRUE
    /\ UNCHANGED <<dreamEntry, dreamText, dreamWait>>

FetchSettles ==
    /\ dreamCall = "pending"
    /\ \E outcome \in FetchOutcomes :
        /\ dreamOutcome' = outcome
        /\ IF analyzeDreamWithAPI(outcome).throws
           THEN /\ dreamCall' = "local"
                /\ UNCHANGED <<analysis, dreamView, dreamBtn>>
           ELSE /\ dreamCall' = "settled"
                /\ analysis' = analyzeDreamWithAPI(outcome).value
                /\ dreamView' = IF displayThrows(analysis')
                                THEN "Failed to analyze dream. Please try again."
                                ELSE "analysis"
                /\ dreamBtn' = TRUE
    /\ UNCHANGED <<dreamEntry, dreamText, dreamWait>>

\* The timer of analyzeDreamLocally fires: the local analysis is computed
\* and handed to displayDreamAnalysis.
LocalTimerFires ==
    /\ dreamCall = "local"
    /\ dreamCall' = "settled"
    /\ analysis' = analyzeDreamLocally(dreamText)
    /\ dreamView' = IF displayThrows(analysis')
                    THEN "Failed to analyze dream. Please try again."
                    ELSE "analysis"
    /\ dreamBtn' = TRUE
    /\ UNCHANGED <<dreamEntry, dreamText, dreamOutcome, dreamWait>>

\* A second goes by while the fetch is out. Nothing in analyzeDreamWithAPI
\* runs on the clock. Seconds are counted up to one past the timeout.
SecondPasses ==
    /\ dreamCall = "pending"
    /\ dreamWait <= TimeoutSeconds
    /\ dreamWait' = dreamWait + 1
    /\ UNCHANGED <<dreamEntry, dreamView, dreamBtn, dreamText, dreamCall,
                   dreamOutcome, analysis>>

\* clearJournalForm, once the click handler has run to its end.
ClearDream ==
    /\ dreamCall = "settled"
    /\ dreamEntry' = ""
    /\ dreamView' = "hidden"
    /\ dreamCall' = "none"
    /\ dreamOutcome' = Null
    /\ analysis' = Null
    /\ dreamText' = ""
    /\ dreamWait' = 0
    /\ UNCHANGED dreamBtn

NextDream ==
    \/ TypeDreamFlow /\ UNCHANGED <<schedVars, uiVars, gwVars, clientVars>>
    \/ ClickAnalyze /\ UNCHANGED <<schedVars, uiVars, gwVars, clientVars>>
    \/ FetchSettles /\ UNCHANGED <<schedVars, uiVars, gwVars, clientVars>>
    \/ LocalTimerFires /\ UNCHANGED <<schedVars, uiVars, gwVars, clientVars>>
    \/ SecondPasses /\ UNCHANGED <<schedVars, uiVars, gwVars, clientVars>>
    \/ ClearDream /\ UNCHANGED <<schedVars, uiVars, gwVars, clientVars>>

SpecDream == Init /\ [][NextDream]_vars

\* ------------------------------------------------------- the results panel
\* The elements of the document a panel can be mounted on.
Elements == {"dreamResults", "dreamHistory"}

\* What init can be handed: an element, the id of one, an id no element has,
\* or a value that is neither a string nor an element.
InitArguments ==
    [kind : {"element", "id"}, element : Elements]
    \cup {[kind |-> "id", element |-> "null"],
          [kind |-> "other", element |-> "null"]}

\* _addStyles: the style element is created unless the document has it.
addStyles(present) == IF present THEN present ELSE TRUE

\* init(containerId) on instance i.
init(i, arg) ==
    IF arg.kind = "other"
    THEN /\ lastCall' = [method |-> "init", instance |-> i, threw |-> TRUE]
         /\ UNCHANGED <<container, isVisible, styleElement>>
    ELSE /\ container' = [container EXCEPT ![i] = arg.element]
         /\ IF arg.element = "null"
            THEN /\ lastCall' = [method |-> "init", instance |-> i, threw |-> TRUE]
                 /\ UNCHANGED <<isVisible, styleElement>>
            ELSE /\ lastCall' = [method |-> "init", instance |-> i, threw |-> FALSE]
                 /\ styleElement' = addStyles(styleElement)
                 /\ UNCHANGED isVisible

\* show(analysisData), showLoading() and showError(message) on instance i.
show(i, method) ==
    IF container[i] = "null"
    THEN /\ lastCall' = [method |-> method, instance |-> i, threw |-> TRUE]
         /\ UNCHANGED <<container, isVisible, styleElement>>
    ELSE /\ lastCall' = [method |-> method, instance |-> i, threw |-> FALSE]
         /\ isVisible' = [isVisible EXCEPT ![i] = TRUE]
         /\ UNCHANGED <<container, styleElement>>

\* hide() and clear() on instance i.
hide(i, method) ==
    /\ lastCall' = [method |-> method, instance |-> i, threw |-> FALSE]
    /\ isVisible' = IF container[i] = "null" THEN isVisible
                    ELSE [isVisible EXCEPT ![i] = FALSE]
    /\ UNCHANGED <<container, styleElement>>

\* destroy() on instance i: clear(), the style element removed if the
\* document has it, the container let go.
destroy(i) ==
    /\ lastCall' = [method |-> "destroy", instance |-> i, threw |-> FALSE]
    /\ isVisible' = IF container[i] = "null" THEN isVisible
                    ELSE [isVisible EXCEPT ![i] = FALSE]
    /\ styleElement' = FALSE
    /\ container' = [container EXCEPT ![i] = "null"]

CallInit == \E i \in Instances, arg \in InitArguments : init(i, arg)

CallShow ==
    \E i \in Instances, method \in {"show", "showLoading", "showError"} :
        show(i, method)

CallHide == \E i \in Instances, method \in {"hide", "clear"} : hide(i, method)

CallDestroy == \E i \in Instances : destroy(i)

NextStyles ==
    \/ CallInit /\ UNCHANGED <<schedVars, uiVars, gwVars, dreamVars, popVars, apiVars>>
    \/ CallShow /\ UNCHANGED <<schedVars, uiVars, gwVars, dreamVars, popVars, apiVars>>
    \/ CallHide /\ UNCHANGED <<schedVars, uiVars, gwVars, dreamVars, popVars, apiVars>>
    \/ CallDestroy /\ UNCHANGED <<schedVars, uiVars, gwVars, dreamVars, popVars, apiVars>>

SpecStyles == Init /\ [][NextStyles]_vars

\* ------------------------------------------------------ the journal API client
\* A dreamText argument: a value that is no string, or a string of lead
\* blanks, then core characters of which the first and the last are not
\* blanks, then trail blanks (a string of blanks only has them all in lead).
ApiTexts ==
    {[isString |-> FALSE, lead |-> 0, core |-> 0, trail |-> 0]}
    \cup {x \in [isString : {TRUE}, lead : 0..MaxPad, core : DreamLengths,
                  trail : 0..MaxPad] : x.core = 0 => x.trail = 0}

\* dreamText.length
length(text) == text.lead + text.core + text.trail

\* dreamText.trim()
trimmed(text) == [text EXCEPT !.lead = 0, !.trail = 0]

\* The input checks of analyzeDream: the message of the error thrown, or ""
\* when the text goes on to be sent.
analyzeDreamRejects(text) ==
    IF ~text.isString \/ length(text) = 0
    THEN "Dream text is required and must be a string"
    ELSE IF length(text) < ApiMinLength
    THEN "Dream text must be at least 20 characters long"
    ELSE IF length(text) > ApiMaxLength
    THEN "Dream text cannot exceed 2000 characters"
    ELSE ""

\* How the fetch of _makeRequest can end short of an abort: it rejects (no
\* network), or a response arrives, with a status, a body that is JSON or
\* not, and in a 2xx JSON body a success field that is true or not.
ApiOutcomes ==
    {[kind |-> "rejects", status |-> 0, json |-> FALSE, success |-> FALSE]}
    \cup {[kind |-> "response", status |-> 200, json |-> j, success |-> s] :
             j \in BOOLEAN, s \in BOOLEAN}
    \cup {[kind |-> "response", status |-> c, json |-> j, success |-> FALSE] :
             c \in {400, 429, 500}, j \in BOOLEAN}

\* The rejection of a fetch whose signal was aborted.
Aborted == [kind |-> "aborted", status |-> 0, json |-> FALSE, success |-> FALSE]

\* The error field of the gateway's JSON body for a status.
ErrorOfBody(status) ==
    IF status = 400
    THEN "Validation failed: dreamText: Dream text must be at least 20 characters"
    ELSE IF status = 429
    THEN "Too many dream analysis requests. Please try again in 15 minutes."
    ELSE "Internal server error during dream analysis"

\* response.statusText
StatusText(status) ==
    IF status = 400 THEN "Bad Request"
    ELSE IF status = 429 THEN "Too Many Requests"
    ELSE "Internal Server Error"

\* clearTimeout(timeoutId) on the state of the timer.
clearTimeout(timer) == IF timer = "pending" THEN "cleared" ELSE timer

\* The try block of _makeRequest from the moment the fetch ends: the timer
\* it leaves, and the value returned or the error thrown.
makeRequestTry(outcome, timer) ==
    IF outcome.kind = "rejects"
    THEN [timer |-> timer, threw |-> TRUE, name |-> "TypeError",
          message |-> "Failed to fetch", data |-> Null]
    ELSE IF outcome.kind = "aborted"
    THEN [timer |-> timer, threw |-> TRUE, name |-> "AbortError",
          message |-> "The user aborted a request.", data |-> Null]
    ELSE IF outcome.status # 200
    THEN [timer |-> clearTimeout(timer), threw |-> TRUE, name |-> "Error",
          message |-> IF outcome.json THEN ErrorOfBody(outcome.status)
                      ELSE StatusText(outcome.status),
          data |-> Null]
    ELSE IF ~outcome.json
    THEN [timer |-> clearTimeout(timer), threw |-> TRUE, name |-> "SyntaxError",
          message |-> "Unexpected token < in JSON at position 0", data |-> Null]
    ELSE [timer |-> clearTimeout(timer), threw |-> FALSE, name |-> "",
          message |-> "",
          data |-> [success |-> outcome.success,
                    data |-> IF outcome.success THEN GatewayData ELSE Null]]

\* The catch block of _makeRequest, on what the try block threw.
makeRequestCatchKeepsTimer(try) ==
    IF try.name = "AbortError"
    THEN [try EXCEPT !.name = "Error",
                     !.message = "Request timeout. Please try again."]
    ELSE try

makeRequestCatch(try) ==
    IF try.name = "AbortError"
    THEN [try EXCEPT !.timer = clearTimeout(try.timer), !.name = "Error",
                     !.message = "Request timeout. Please try again."]
    ELSE [try EXCEPT !.timer = clearTimeout(try.timer)]

\* _makeRequest from the moment the fetch ends.
makeRequest(outcome, timer) ==
    LET try == makeRequestTry(outcome, timer) IN
    IF try.threw THEN makeRequestCatch(try) ELSE try

\* The catch block of analyzeDream: the message of the error it throws.
analyzeDreamCatch(name, message) ==
    IF name = "TypeError" /\ includes(message, "fetch")
    THEN "Network error: Unable to connect to dream analysis service"
    ELSE IF includes(message, "429") \/ includes(message, "quota")
    THEN "Rate limit exceeded. Please try again in a few minutes."
    ELSE IF includes(message, "401")
    THEN "Authentication required. Please log in."
    ELSE IF includes(message, "500")
    THEN "Server error. Please try again later."
    ELSE message

\* analyzeDream from the moment _makeRequest has returned or thrown.
analyzeDreamSettles(made) ==
    IF made.threw
    THEN [threw |-> TRUE, message |-> analyzeDreamCatch(made.name, made.message),
          data |-> Null]
    ELSE IF ~made.data.success
    THEN [threw |-> TRUE,
          message |-> analyzeDreamCatch("Error", "Dream analysis failed"),
          data |-> Null]
    ELSE [threw |-> FALSE, message |-> "", data |-> made.data.data]

\* analyzeDream(dreamText) is called: the input checks, and for a text that
\* passes them the payload is built and _makeRequest sets its timer and
\* starts the fetch.
CallAnalyzeDream ==
    /\ apiPhase # "fetching"
    /\ \E text \in ApiTexts :
          /\ apiText' = text
          /\ apiAborted' = FALSE
          /\ apiWait' = 0
          /\ apiReturn' = Null
          /\ IF analyzeDreamRejects(text) # ""
             THEN /\ apiPayload' = Null
                  /\ apiPhase' = "idle"
                  /\ apiTimer' = "none"
                  /\ apiResult' =
                         [threw |-> TRUE,
                          message |-> analyzeDreamCatch("Error",
                                          analyzeDreamRejects(text)),
                          data |-> Null]
             ELSE /\ apiPayload' = trimmed(text)
                  /\ apiPhase' = "fetching"
                  /\ apiTimer' = "pending"
                  /\ apiResult' = Null

\* _makeRequest and analyzeDream run on from the end of the fetch.
Settle(outcome) ==
    LET made == makeRequest(outcome, apiTimer) IN
    /\ apiTimer' = made.timer
    /\ apiReturn' = [threw |-> made.threw, message |-> made.message]
    /\ apiPhase' = "settled"
    /\ apiResult' = analyzeDreamSettles(made)
    /\ UNCHANGED <<apiText, apiPayload, apiAborted, apiWait>>

\* The fetch ends before the timeout fires.
FetchEnds ==
    /\ apiPhase = "fetching"
    /\ ~apiAborted
    /\ \E outcome \in ApiOutcomes : Settle(outcome)

\* A second goes by with the fetch out.
ApiSecondPasses ==
    /\ apiPhase = "fetching"
    /\ ~apiAborted
    /\ apiWait < TimeoutSeconds
    /\ apiWait' = apiWait + 1
    /\ UNCHANGED <<apiText, apiPayload, apiPhase, apiTimer, apiAborted,
                   apiReturn, apiResult>>

\* The timeout timer fires: controller.abort().
TimeoutFires ==
    /\ apiPhase = "fetching"
    /\ apiTimer = "pending"
    /\ apiWait = TimeoutSeconds
    /\ apiTimer' = "fired"
    /\ apiAborted' = TRUE
    /\ UNCHANGED <<apiText, apiPayload, apiPhase, apiWait, apiReturn, apiResult>>

\* The aborted fetch rejects.
AbortRejects ==
    /\ apiPhase = "fetching"
    /\ apiAborted
    /\ Settle(Aborted)

NextApi ==
    \/ CallAnalyzeDream /\ UNCHANGED <<schedVars, uiVars, gwVars, dreamVars, popVars, styleVars>>
    \/ FetchEnds /\ UNCHANGED <<schedVars, uiVars, gwVars, dreamVars, popVars, styleVars>>
    \/ ApiSecondPasses /\ UNCHANGED <<schedVars, uiVars, gwVars, dreamVars, popVars, styleVars>>
    \/ TimeoutFires /\ UNCHANGED <<schedVars, uiVars, gwVars, dreamVars, popVars, styleVars>>
    \/ AbortRejects /\ UNCHANGED <<schedVars, uiVars, gwVars, dreamVars, popVars, styleVars>>

SpecApi == Init /\ [][NextApi]_vars

\* ------------------------------------------------------------ the timer popup
\* The popup of the user who works the timer. Each message it sends is
\* handled by the scheduler and answered to its callback in one step.

\* startCountdown: nothing without a currentTimer; otherwise a new polling
\* loop is set going and timerInterval is made to name it.
startCountdown(hasTimer, handle, live) ==
    IF ~hasTimer THEN [handle |-> handle, live |-> live]
    ELSE [handle |-> "set", live |-> live + 1]

\* if (timerInterval) { clearInterval(timerInterval); timerInterval = null; }
clearTimerInterval(handle, live) ==
    IF handle = "set" THEN [handle |-> "null", live |-> live - 1]
    ELSE [handle |-> handle, live |-> live]

\* The view selector changes to 'timer' from another view:
\* switchView('timer'): GET_TIMER_STATE, and in its callback the countdown
\* view with startCountdown for a trusted snapshot that still counts, the
\* timer form otherwise.
PopSwitchTimer ==
    /\ popView \in {"lifeclock", "journal"}
    /\ GetTimerState
    /\ LET trusted == SnapshotTrusted(response')
           countdown == trusted /\ ShowsCountdown(response'.currentTimer)
           has == popHasTimer \/ trusted
           loop == IF countdown THEN startCountdown(has, popHandle, popLive)
                   ELSE [handle |-> popHandle, live |-> popLive]
       IN  /\ loop.live <= MaxIntervals
           /\ popHasTimer' = has
           /\ popView' = IF countdown THEN "countdown" ELSE "timer"
           /\ popHandle' = loop.handle
           /\ popLive' = loop.live
    /\ popLast' = "switchView"
    /\ UNCHANGED popStopPending

\* The view selector changes to 'lifeclock' or to 'journal'.
PopSwitchAway ==
    /\ \E view \in {"lifeclock", "journal"} \ {popView} : popView' = view
    /\ popLast' = "switchView"
    /\ UNCHANGED <<popHasTimer, popHandle, popLive, popStopPending>>
    /\ UNCHANGED schedVars

\* The start button, on the timer form: timerInterval cleared, currentTimer
\* built, START_TIMER sent, the countdown view shown, startCountdown.
PopStart ==
    /\ popView = "timer"
    /\ \E total \in 0..UiMaxTotal, segment \in 0..UiMaxTotal,
          grace \in 0..UiMaxGrace :
            startSegmentedTimer(total, segment, grace)
    /\ LET cleared == clearTimerInterval(popHandle, popLive)
           loop == startCountdown(TRUE, cleared.handle, cleared.live)
       IN  /\ loop.live <= MaxIntervals
           /\ popHandle' = loop.handle
           /\ popLive' = loop.live
    /\ popHasTimer' = TRUE
    /\ popView' = "countdown"
    /\ popLast' = "start"
    /\ UNCHANGED popStopPending

\* One firing of one polling loop: GET_TIMER_STATE, and in its callback the
\* display refreshed, or stopTimer() called for an answer with no timer or
\* with an ended one.
PopPoll ==
    /\ popLive > 0
    /\ ~popStopPending
    /\ GetTimerState
    /\ popHasTimer' = (popHasTimer \/ response'.currentTimer # Null)
    /\ popStopPending' = (\/ response'.currentTimer = Null
                          \/ PollSeesEnded(response'.currentTimer))
    /\ popLast' = "poll"
    /\ UNCHANGED <<popView, popHandle, popLive>>

\* stopTimer(), from the stop button of the countdown view or from a poll
\* callback: STOP_TIMER, and on its acknowledgment timerInterval cleared,
\* currentTimer dropped and the timer form shown.
PopStopTimer ==
    /\ popStopPending \/ popView = "countdown"
    /\ stopBackgroundTimer
    /\ LET cleared == clearTimerInterval(popHandle, popLive)
       IN  /\ popHandle' = cleared.handle
           /\ popLive' = cleared.live
    /\ popHasTimer' = FALSE
    /\ popView' = "timer"
    /\ popStopPending' = FALSE
    /\ popLast' = "stopTimer"

\* A step of the scheduler alone.
PopIdle ==
    /\ popLast' = "none"
    /\ UNCHANGED <<popView, popHasTimer, popHandle, popLive, popStopPending>>

NextPopup ==
    \/ PopSwitchTimer /\ UNCHANGED <<uiVars, gwVars, dreamVars, apiVars, styleVars>>
    \/ PopSwitchAway /\ UNCHANGED <<uiVars, gwVars, dreamVars, apiVars, styleVars>>
    \/ PopStart /\ UNCHANGED <<uiVars, gwVars, dreamVars, apiVars, styleVars>>
    \/ PopPoll /\ UNCHANGED <<uiVars, gwVars, dreamVars, apiVars, styleVars>>
    \/ PopStopTimer /\ UNCHANGED <<uiVars, gwVars, dreamVars, apiVars, styleVars>>
    \/ Tick /\ PopIdle /\ UNCHANGED <<uiVars, gwVars, dreamVars, apiVars, styleVars>>

SpecPopup == Init /\ [][NextPopup]_vars

\* ------------------------------------------------------------------ claims
\* Block count and tail of the last start's arguments, as the data model
\* defines them (floor and mod of total by segment + grace).
ConfigBlocks == config.total \div (config.segment + config.grace)

ConfigTail == config.total % (config.segment + config.grace)

Live == globalTimerState # Null

\* The step just taken was the interval callback ending the session.
CompletedNaturally ==
    lastMsg = "TICK" /\ notified = "Session Complete" /\ completions > 0

\* C1: the state startSegmentedTimer creates from a valid configuration has
\* fullBlock = segment + grace, blocks * fullBlock + remainingTime = total and
\* 0 <= remainingTime < fullBlock; 100/20/5 gives 4 blocks and no tail,
\* 95/20/5 gives 3 blocks and a tail of 20.
C1_BlockArithmetic ==
    /\ (Live /\ lastMsg = "START_TIMER") =>
          LET s == globalTimerState IN
          /\ s.total = config.total
          /\ s.fullBlock = config.segment + config.grace
          /\ s.blocks * s.fullBlock + s.remainingTime = config.total
          /\ 0 <= s.remainingTime
          /\ s.remainingTime < s.fullBlock
    /\ NewTimerState(100, 20, 5).blocks = 4
    /\ NewTimerState(100, 20, 5).remainingTime = 0
    /\ NewTimerState(95, 20, 5).blocks = 3
    /\ NewTimerState(95, 20, 5).remainingTime = 20

\* A start whose configuration leaves a tail: 3/1/1 gives 1 block, tail 1.
C1_Witness ==
    /\ Live
    /\ lastMsg = "START_TIMER"
    /\ globalTimerState.blocks = 1
    /\ globalTimerState.remainingTime = 1
    /\ globalTimerState.grace = 1

\* C2: a GET_TIMER_STATE handled right after a START_TIMER, whatever the
\* scheduler held before the start, answers with currentBlock 0, work time,
\* currentTime = segment * 60, blocks and remainingTime the floor and mod of
\* total by segment + grace, and isPaused false; 50/20/5 gives 2 blocks, no
\* tail and 1200 seconds.
C2_QueryAfterStart ==
    [][(lastMsg = "START_TIMER" /\ lastMsg' = "GET_TIMER_STATE") =>
          /\ response'.isPaused = FALSE
          /\ response'.currentTimer # Null
          /\ response'.currentTimer.currentBlock = 0
          /\ response'.currentTimer.isWorkTime = TRUE
          /\ response'.currentTimer.currentTime =
                 config.segment * SecondsPerMinute
          /\ response'.currentTimer.blocks = ConfigBlocks
          /\ response'.currentTimer.remainingTime = ConfigTail
          /\ NewTimerState(50, 20, 5).blocks = 2
          /\ NewTimerState(50, 20, 5).remainingTime = 0
          /\ NewTimerState(50, 20, 5).currentTime = 1200]_vars

\* A query has been answered right after a start, before any callback.
C2_Witness ==
    /\ lastMsg = "GET_TIMER_STATE"
    /\ response # NoResponse
    /\ response # Ack
    /\ response.currentTimer # Null
    /\ response.currentTimer.currentTime = config.segment * SecondsPerMinute
    /\ response.currentTimer.currentBlock = 0
    /\ response.isPaused = FALSE
    /\ ticks = 0
    /\ ~commanded

\* C3: a session started from a valid configuration and ticked total * 60
\* times with no pause, resume or stop is Idle by then, and has completed
\* exactly once.
C3_IdleWithinTotalSeconds ==
    (config # Null /\ ~commanded) =>
        /\ completions <= 1
        /\ (Live => ticks < config.total * SecondsPerMinute)
        /\ (ticks >= config.total * SecondsPerMinute =>
                ~Live /\ completions = 1)

\* C4: from a natural completion until the next START_TIMER the tick loop is
\* cancelled, the TimerState is absent, the paused flag is false and no
\* notification is raised after the completion's own.
C4_QuietAfterCompletion ==
    completions > 0 =>
        /\ liveIntervals = 0
        /\ globalTimerInterval = "null"
        /\ ~Live
        /\ globalIsPaused = FALSE
        /\ (notified # "none" => CompletedNaturally)

\* C5: an interval callback that fires while the scheduler is paused leaves
\* the TimerState and the paused flag as they were and raises no notification.
C5_PausedTickFreezes ==
    [][(lastMsg' = "TICK" /\ globalIsPaused) =>
          /\ globalTimerState' = globalTimerState
          /\ globalIsPaused' = TRUE
          /\ notified' = "none"]_vars

\* A callback has fired on a paused, live session in the middle of a phase.
C5_Witness ==
    /\ lastMsg = "TICK"
    /\ globalIsPaused
    /\ Live
    /\ globalTimerState.currentTime < phase.seconds
    /\ ~globalTimerState.isWorkTime

\* C6: PAUSE_TIMER and RESUME_TIMER handled during a session change no field
\* of the TimerState, only the paused flag (true after a pause, false after a
\* resume); the tick loop is untouched.
C6_PauseResumeOnlyFlag ==
    [][(Live /\ lastMsg' \in {"PAUSE_TIMER", "RESUME_TIMER"}) =>
          /\ globalTimerState' = globalTimerState
          /\ globalIsPaused' = (lastMsg' = "PAUSE_TIMER")
          /\ liveIntervals' = liveIntervals
          /\ globalTimerInterval' = globalTimerInterval]_vars

\* A session resumed in the middle of a break.
C6_Witness ==
    /\ lastMsg = "RESUME_TIMER"
    /\ Live
    /\ ~globalIsPaused
    /\ ~globalTimerState.isWorkTime
    /\ globalTimerState.currentTime < phase.seconds
    /\ globalTimerState.currentTime > 0

\* C7: with no tail (remainingTime = 0) no break is entered after the last
\* regular work segment, and the session completes at the end of a work
\* phase, the last regular segment's, never at the end of a break.
C7_NoDanglingBreak ==
    (config # Null /\ ConfigTail = 0) =>
        /\ (Live /\ ~globalTimerState.isWorkTime) =>
               globalTimerState.currentBlock < globalTimerState.blocks - 1
        /\ Live => globalTimerState.currentBlock < globalTimerState.blocks
        /\ CompletedNaturally =>
               /\ phase.work
               /\ phase.seconds = config.segment * SecondsPerMinute

\* A session of two blocks with a real break between them and no tail has
\* completed.
C7_Witness ==
    /\ CompletedNaturally
    /\ config # Null
    /\ ConfigTail = 0
    /\ ConfigBlocks = 2
    /\ config.grace > 0

\* C8: with a tail (remainingTime > 0) the last phase run before Idle is a
\* work phase of exactly remainingTime * 60 seconds, and no break follows it.
C8_TailIsLastPhase ==
    (config # Null /\ ConfigTail > 0 /\ CompletedNaturally) =>
        /\ phase.work
        /\ phase.seconds = ConfigTail * SecondsPerMinute

\* C9: a live TimerState has currentBlock <= blocks, and when currentBlock =
\* blocks it is in the final tail work segment: work time, remainingTime > 0,
\* and the phase was given remainingTime * 60 seconds.
C9_BlockIndexBound ==
    Live =>
        /\ globalTimerState.currentBlock <= globalTimerState.blocks
        /\ globalTimerState.currentBlock = globalTimerState.blocks =>
               /\ globalTimerState.isWorkTime
               /\ globalTimerState.remainingTime > 0
               /\ phase.work
               /\ phase.seconds =
                      globalTimerState.remainingTime * SecondsPerMinute

\* C10: currentTime is never negative where it can be observed (the live
\* state between steps, a GET_TIMER_STATE answer, the stored snapshot), and a
\* callback on a running session that stays inside the phase lowers
\* currentTime by exactly one and changes nothing else of the state.
C10_CountdownByOne ==
    [][/\ Live' => globalTimerState'.currentTime >= 0
       /\ storage'.currentTimer # Null => storage'.currentTimer.currentTime >= 0
       /\ (lastMsg' = "GET_TIMER_STATE" /\ response'.currentTimer # Null) =>
              response'.currentTimer.currentTime >= 0
       /\ (lastMsg' = "TICK" /\ Live /\ ~globalIsPaused
             /\ globalTimerState.currentTime > 1) =>
              globalTimerState' =
                  [globalTimerState EXCEPT !.currentTime = @ - 1]]_vars

\* A zero-length break (grace = 0) is on display with currentTime 0, and the
\* callback before it was an ordinary decrement.
C10_Witness ==
    /\ Live
    /\ lastMsg = "TICK"
    /\ ~globalTimerState.isWorkTime
    /\ globalTimerState.currentTime = 0
    /\ storage.currentTimer # Null
    /\ storage.currentTimer.currentTime = 0

\* C11: a STOP_TIMER, whatever the scheduler held (work, break or paused),
\* leaves it Idle: no TimerState, paused flag false, no interval, both storage
\* keys removed, no notification, and the command acknowledged.
C11_StopLeadsToIdle ==
    lastMsg = "STOP_TIMER" =>
        /\ ~Live
        /\ globalIsPaused = FALSE
        /\ globalTimerInterval = "null"
        /\ liveIntervals = 0
        /\ storage = EmptyStorage
        /\ notified = "none"
        /\ response = Ack

\* A stop handled after a break had begun, in a session that never
\* completed.
C11_Witness ==
    /\ lastMsg = "STOP_TIMER"
    /\ config # Null
    /\ ~phase.work
    /\ phase.seconds > 0
    /\ completions = 0
    /\ ~Live

\* C12: PAUSE_TIMER, RESUME_TIMER and STOP_TIMER handled while Idle are
\* acknowledged and change nothing a GET_TIMER_STATE shows: the timer stays
\* absent and isPaused stays what it was (false).
C12_IdleCommandsNoOp ==
    [][(~Live /\ lastMsg' \in {"PAUSE_TIMER", "RESUME_TIMER", "STOP_TIMER"}) =>
          /\ response' = Ack
          /\ globalTimerState' = globalTimerState
          /\ globalIsPaused' = globalIsPaused
          /\ globalIsPaused' = FALSE]_vars

\* C13: at most one interval loop is ever live, it is the one the handle
\* names, a live TimerState always has it, and a START_TIMER that finds a
\* session running or paused puts the fresh state in its place.
C13_OneStateOneLoop ==
    /\ liveIntervals <= 1
    /\ (globalTimerInterval = "set") = (liveIntervals = 1)
    /\ Live => liveIntervals = 1
    /\ lastMsg = "START_TIMER" =>
           /\ globalTimerState =
                  NewTimerState(config.total, config.segment, config.grace)
           /\ globalIsPaused = FALSE

\* A start that replaced a session which was still live.
C13_Witness ==
    /\ lastMsg = "START_TIMER"
    /\ replaced
    /\ Live
    /\ liveIntervals = 1

\* C15: while a session is live the stored snapshot is the live state of at
\* most 10 callbacks ago (same fields, currentTime ahead by 0..10) with the
\* live paused flag, and after a start, a pause, a resume or a phase
\* transition it is the live state itself.
C15_SnapshotLag ==
    Live =>
        /\ storage.keys = {"currentTimer", "isPaused"}
        /\ storage.isPaused = globalIsPaused
        /\ storage.currentTimer # Null
        /\ storage.currentTimer =
               [globalTimerState EXCEPT
                    !.currentTime = storage.currentTimer.currentTime]
        /\ storage.currentTimer.currentTime >= globalTimerState.currentTime
        /\ storage.currentTimer.currentTime - globalTimerState.currentTime
               <= SaveEvery
        /\ (\/ lastMsg \in {"START_TIMER", "PAUSE_TIMER", "RESUME_TIMER"}
            \/ (lastMsg = "TICK" /\ notified # "none")) =>
               storage.currentTimer = globalTimerState

\* The snapshot is 9 callbacks old, and a break just begun is stored.
C15_Witness ==
    /\ Live
    /\ storage.currentTimer # Null
    /\ storage.currentTimer.currentTime - globalTimerState.currentTime
           = SaveEvery - 1
    /\ ~globalTimerState.isWorkTime

\* C16: a restart of the scheduler while a session is running leaves a live
\* TimerState, at most 10 seconds behind the one before the restart, with its
\* tick loop going.
C16_ResumesAfterRestart ==
    [][(Live /\ ~globalIsPaused /\ lastMsg' = "RESTART") =>
          /\ globalTimerState' # Null
          /\ globalTimerState' =
                 [globalTimerState EXCEPT
                      !.currentTime = globalTimerState'.currentTime]
          /\ globalTimerState'.currentTime >= globalTimerState.currentTime
          /\ globalTimerState'.currentTime - globalTimerState.currentTime
                 <= SaveEvery
          /\ liveIntervals' = 1]_vars

\* C17: GET_TIMER_STATE answers with exactly the TimerState and the paused
\* flag the scheduler holds after its last callback or command, and changes
\* neither, so two queries with no scheduler step between them get the same
\* answer.
C17_QueryIsLiveState ==
    [][lastMsg' = "GET_TIMER_STATE" =>
          /\ response' = [currentTimer |-> globalTimerState,
                          isPaused |-> globalIsPaused]
          /\ globalTimerState' = globalTimerState
          /\ globalIsPaused' = globalIsPaused
          /\ lastMsg = "GET_TIMER_STATE" => response' = response]_vars

\* A query answered in the middle of a break, at a moment when the stored
\* snapshot is older than the live state the answer carries.
C17_Witness ==
    /\ lastMsg = "GET_TIMER_STATE"
    /\ response.currentTimer # Null
    /\ ~response.currentTimer.isWorkTime
    /\ response.currentTimer.currentTime < phase.seconds
    /\ response.currentTimer = globalTimerState
    /\ storage.currentTimer # globalTimerState

\* C14: a start with total <= 0, segment <= 0, grace < 0 or segment >= total
\* changes nothing of the scheduler (TimerState, paused flag, interval,
\* snapshot) and raises nothing; every start that does reach the scheduler
\* carries a configuration with none of those faults.
C14_InvalidStartNoChange ==
    [][/\ lastMsg' = "START_REJECTED" =>
              /\ UNCHANGED <<globalTimerState, globalIsPaused,
                             globalTimerInterval, liveIntervals, storage>>
              /\ notified' = "none"
       /\ lastMsg' = "START_TIMER" =>
              /\ config'.total > 0
              /\ config'.segment > 0
              /\ config'.grace >= 0
              /\ config'.segment < config'.total]_vars

\* A refused start while a paused session is live.
C14_Witness ==
    /\ lastMsg = "START_REJECTED"
    /\ Live
    /\ globalIsPaused
    /\ globalTimerState.currentTime < phase.seconds

\* C18: no step of a popup that only observes changes the scheduler's
\* TimerState or its paused flag; in particular none ends a session.
C18_ObserverChangesNothing ==
    [][obsLast' # "none" =>
          /\ globalTimerState' = globalTimerState
          /\ globalIsPaused' = globalIsPaused]_vars

\* The structural invariants of a snapshot: every numeric field is
\* non-negative and currentBlock <= blocks.
StructurallySound(timer) ==
    /\ timer.total >= 0
    /\ timer.segment >= 0
    /\ timer.grace >= 0
    /\ timer.fullBlock >= 0
    /\ timer.blocks >= 0
    /\ timer.remainingTime >= 0
    /\ timer.currentBlock >= 0
    /\ timer.currentTime >= 0
    /\ timer.currentBlock <= timer.blocks

\* C19: the popup that reconciles through switchView('timer') trusts the
\* answer exactly when it carries a timer whose structural invariants hold.
C19_TrustIffSound ==
    (obsLast = "switchView" /\ lastMsg = "GET_TIMER_STATE") =>
        \A p \in obsPending :
            p.kind = "switchView" =>
                p.trusted = (/\ response.currentTimer # Null
                             /\ StructurallySound(response.currentTimer))

\* C20: a request the limiter lets through with a dreamText string is refused
\* by validation exactly when the length is outside 20..2000: lengths 19 and
\* 2001 get HTTP 400 with an error naming dreamText and the limit broken,
\* and then the completion service is not called; lengths 20 and 2000 pass
\* validation and the service is called.
C20_LengthValidation ==
    (gwLast # Null /\ ~gwLast.limited /\ gwLast.body.hasText) =>
        LET len == gwLast.body.len
            r == gwLast.response
        IN  /\ (r.status = 400) <=> (len < 20 \/ len > 2000)
            /\ len < 20 =>
                   /\ r.error = "Validation failed: dreamText: Dream text must be at least 20 characters"
                   /\ ~r.called
                   /\ gwLast.upstream = NotCalled
            /\ len > 2000 =>
                   /\ r.error = "Validation failed: dreamText: Dream text cannot exceed 2000 characters"
                   /\ ~r.called
                   /\ gwLast.upstream = NotCalled
            /\ (len >= 20 /\ len <= 2000) =>
                   /\ r.called
                   /\ gwLast.upstream \in UpstreamOutcomes

\* A text of 2001 characters, from a client that had sent requests before,
\* passed the limiter and was answered with 400.
C20_Witness ==
    /\ gwLast # Null
    /\ ~gwLast.limited
    /\ gwLast.body.hasText
    /\ gwLast.body.len = 2001
    /\ gwLast.response.status = 400
    /\ gwHits[gwLast.client] > 1

\* C21: in any stretch of windowMs at most max requests of one client pass
\* the limiter.
C21_RollingWindowQuota ==
    gwWatch # Null => gwWatch.passed <= RateMax

\* C22: a request the limiter rejects gets the limiter's answer and reaches
\* neither validation nor the completion service, and it leaves the age of
\* every window, hence the time at which the client is let through again,
\* as it was; no other client's count changes.
C22_RejectedKeepsWindow ==
    [][(gwEvent' = "request" /\ gwLast'.limited) =>
          /\ gwAge' = gwAge
          /\ gwLast'.response = LimiterResponse
          /\ ~gwLast'.response.called
          /\ gwLast'.upstream = NotCalled
          /\ \A c \in 1..MaxClients :
                 c # gwLast'.client => gwHits'[c] = gwHits[c]]_vars

\* A request was rejected part-way through the client's window.
C22_Witness ==
    /\ gwEvent = "request"
    /\ gwLast.limited
    /\ gwAge[gwLast.client] > 0

\* C23: a success response is sent only when the completion parsed as JSON
\* and the parsed object passed the five-key schema, and its data then holds
\* exactly the five keys and timestamp; a completion that is not JSON or
\* breaks the schema gets a failure response (HTTP 500) with no data.
C23_SuccessOnlyValidated ==
    (gwLast # Null /\ ~gwLast.limited) =>
        LET u == gwLast.upstream
            r == gwLast.response
            sound == /\ u.kind = "content"
                     /\ u.json
                     /\ u.object
                     /\ \A k \in FiveKeys : u.fields[k] = "ok"
        IN  /\ r.success =>
                   /\ sound
                   /\ r.status = 200
                   /\ r.data = FiveKeys \cup {"timestamp"}
            /\ (u.kind = "content" /\ ~sound) =>
                   /\ ~r.success
                   /\ r.status = 500
                   /\ r.data = {}
            /\ ~r.success => r.data = {}

\* A completion that is an object with one key of the wrong type and a key
\* beyond the five has been answered.
C23_Witness ==
    /\ gwLast # Null
    /\ ~gwLast.limited
    /\ gwLast.upstream.kind = "content"
    /\ gwLast.upstream.object
    /\ gwLast.upstream.fields["symbols"] = "wrong"
    /\ gwLast.upstream.extra
    /\ ~gwLast.response.success

\* The error strings the handler has for failures of the completion call.
UpstreamFailureMessages ==
    {"API quota exceeded. Please try again later.",
     "Rate limit exceeded. Please try again in a moment.",
     "Internal server error during dream analysis",
     "Failed to parse dream analysis response",
     "Invalid dream analysis response format"}

\* What of an outcome the error string may depend on: that it threw and with
\* which code, or which check its content failed; never its text.
FailureKind(u) ==
    IF u.kind = "throws" THEN u.code
    ELSE IF ~u.json THEN "not_json"
    ELSE "bad_schema"

\* C24: when the completion call was made and failed, the error string of
\* the response is one of five fixed messages, fixed by the kind of failure
\* alone: it is never the text that came from the completion service.
C24_NoUpstreamText ==
    (gwLast # Null /\ gwLast.response.called /\ ~gwLast.response.success) =>
        LET u == gwLast.upstream
            r == gwLast.response
        IN  /\ r.error \in UpstreamFailureMessages
            /\ r.error \notin UpstreamTexts
            /\ r.error # u.text
            /\ \A v \in UpstreamOutcomes :
                   (v.kind = "throws" \/ ~responseValidation(v).success) =>
                       (FailureKind(v) = FailureKind(u) =>
                            HandlerResponse(gwLast.body, v).error = r.error)

\* The completion call threw an error with a code the handler does not know.
C24_Witness ==
    /\ gwLast # Null
    /\ gwLast.upstream.kind = "throws"
    /\ gwLast.upstream.code = "other"
    /\ gwLast.upstream.text = "upstream text B"
    /\ gwLast.response.status = 500

\* Membership in a sequence.
InSeq(x, s) == \E i \in 1..Len(s) : s[i] = x

\* Some keyword of the category occurs in the (lower-cased) text.
KeywordOccurs(words, category, text) ==
    \E word \in words[category] : includes(text, word)

\* C28: the local analysis lists an emotion (a theme) exactly when the
\* lower-cased text contains a keyword of that category; with no emotion
\* matched emotions is ["neutral"], with no theme matched themes is
\* ["general"]; a text containing "flying" has "flying" among its themes;
\* the interpretation is the generic sentence exactly when nothing matched.
C28_KeywordCategories ==
    (analysis # Null /\ dreamCall = "none") =>
        LET text == toLowerCase(dreamEntry)
            emotionNames == {emotionOrder[i] : i \in 1..Len(emotionOrder)}
            themeNames == {themeOrder[i] : i \in 1..Len(themeOrder)}
            hitEmotions == {e \in emotionNames : KeywordOccurs(emotionWords, e, text)}
            hitThemes == {th \in themeNames : KeywordOccurs(themeWords, th, text)}
        IN  /\ \A e \in emotionNames : InSeq(e, analysis.emotions) <=> e \in hitEmotions
            /\ \A th \in themeNames : InSeq(th, analysis.themes) <=> th \in hitThemes
            /\ (hitEmotions = {}) <=> (analysis.emotions = <<"neutral">>)
            /\ (hitThemes = {}) <=> (analysis.themes = <<"general">>)
            /\ includes(text, "flying") => InSeq("flying", analysis.themes)
            /\ (hitEmotions = {} /\ hitThemes = {}) <=>
                   (analysis.interpretation = "Dream analysis suggests: " \o GenericSentence)

\* A text with a capitalised keyword ("Flying") and a keyword inside a longer
\* word ("room" in "mushroom") has been analysed, with no emotion matched.
C28_Witness ==
    /\ analysis # Null
    /\ dreamCall = "none"
    /\ dreamEntry = "mushroom Flying"
    /\ analysis.themes = <<"flying", "home">>
    /\ analysis.emotions = <<"neutral">>

\* C29: the symbols are the first three words of the scan order that occur
\* in the lower-cased text: at most three, none twice, in scan order wherever
\* they stand in the text, and a vocabulary word that occurs is left out
\* only when three earlier ones occur.
C29_FirstThreeSymbols ==
    (analysis # Null /\ dreamCall = "none") =>
        LET text == toLowerCase(dreamEntry)
            symbols == analysis.symbols
            Pos(w) == CHOOSE i \in 1..Len(commonSymbols) : commonSymbols[i] = w
            EarlierOccurring(i) == {j \in 1..(i - 1) : includes(text, commonSymbols[j])}
        IN  /\ Len(symbols) <= 3
            /\ \A i \in 1..Len(symbols) :
                   /\ InSeq(symbols[i], commonSymbols)
                   /\ includes(text, symbols[i])
            /\ \A i, j \in 1..Len(symbols) : i < j => Pos(symbols[i]) < Pos(symbols[j])
            /\ \A i \in 1..Len(commonSymbols) :
                   InSeq(commonSymbols[i], symbols) <=>
                       /\ includes(text, commonSymbols[i])
                       /\ Cardinality(EarlierOccurring(i)) < 3

\* A text in which five vocabulary words occur, the last in scan order
\* written first, has been analysed.
C29_Witness ==
    /\ analysis # Null
    /\ dreamCall = "none"
    /\ dreamEntry = "Window treehouse firehouse"
    /\ analysis.symbols = <<"house", "tree", "fire">>

\* The four fields displayDreamAnalysis reads from the object it is handed.
DisplayFields == {"emotions", "themes", "interpretation", "symbols"}

\* The gateway call of the flow under way has failed.
GatewayFailed ==
    dreamOutcome # Null /\ analyzeDreamWithAPI(dreamOutcome).throws

C26_LoadingBounded ==
    (dreamCall = "pending" /\ dreamView = "loading") => dreamWait <= TimeoutSeconds

\* C27: whatever path produced it, the object handed to displayDreamAnalysis
\* has emotions, themes, interpretation and symbols as direct fields, and a
\* successful gateway analysis ends on display as an analysis.
C27_SameStructure ==
    /\ analysis # Null => DisplayFields \subseteq DOMAIN analysis
    /\ (dreamCall = "settled" /\ dreamOutcome # Null /\ ~GatewayFailed) =>
           dreamView = "analysis"

\* C30: the callback that takes a running work phase to zero either starts a
\* break (when currentBlock < blocks - 1, or currentBlock = blocks - 1 with
\* remainingTime > 0): currentTime = grace * 60, currentBlock and every other
\* field as before, one "Break Time" notification; or, with no work left,
\* raises "Session Complete" and leaves the scheduler Idle.
C30_WorkPhaseEnds ==
    [][(/\ lastMsg' = "TICK"
        /\ Live
        /\ ~globalIsPaused
        /\ globalTimerState.isWorkTime
        /\ globalTimerState.currentTime = 1) =>
          LET s == globalTimerState
              moreWork == \/ s.currentBlock < s.blocks - 1
                          \/ (s.currentBlock = s.blocks - 1 /\ s.remainingTime > 0)
          IN  IF moreWork
              THEN /\ globalTimerState' =
                          [s EXCEPT !.isWorkTime = FALSE, !.currentTime = s.grace * 60]
                   /\ notified' = "Break Time"
                   /\ globalTimerInterval' = globalTimerInterval
              ELSE /\ globalTimerState' = Null
                   /\ notified' = "Session Complete"
                   /\ globalIsPaused' = FALSE
                   /\ globalTimerInterval' = "null"
                   /\ liveIntervals' = 0
                   /\ storage'.keys = {}]_vars

\* The break before the tail has just begun: the last regular block is done
\* and remainingTime > 0.
C30_Witness ==
    /\ Live
    /\ lastMsg = "TICK"
    /\ notified = "Break Time"
    /\ globalTimerState.currentBlock = globalTimerState.blocks - 1
    /\ globalTimerState.remainingTime > 0
    /\ globalTimerState.currentTime = globalTimerState.grace * 60
    /\ globalTimerState.grace > 0

\* C31: the callback that takes a running break to zero (or below, for a
\* break of no seconds) adds exactly one to currentBlock and then, on the new
\* currentBlock: below blocks, a work phase of segment * 60 seconds opens
\* under "Segment N of blocks" with N = currentBlock + 1; at or past blocks
\* with remainingTime > 0, a work phase of remainingTime * 60 seconds opens
\* under "Final Segment"; and the scheduler goes Idle exactly when the new
\* currentBlock is at or past blocks and remainingTime = 0.
C31_BreakPhaseEnds ==
    [][(/\ lastMsg' = "TICK"
        /\ Live
        /\ ~globalIsPaused
        /\ ~globalTimerState.isWorkTime
        /\ globalTimerState.currentTime <= 1) =>
          LET s == globalTimerState
              block == s.currentBlock + 1
          IN  IF block < s.blocks
              THEN /\ globalTimerState' =
                          [s EXCEPT !.currentBlock = block, !.isWorkTime = TRUE,
                                    !.currentTime = s.segment * 60]
                   /\ notified' = "Segment"
                   /\ SegmentTitle(globalTimerState') =
                          [n |-> block + 1, of |-> s.blocks]
              ELSE IF s.remainingTime > 0
              THEN /\ globalTimerState' =
                          [s EXCEPT !.currentBlock = block, !.isWorkTime = TRUE,
                                    !.currentTime = s.remainingTime * 60]
                   /\ notified' = "Final Segment"
              ELSE /\ globalTimerState' = Null
                   /\ notified' = "Session Complete"]_vars

\* The break before the tail has just ended: the final work phase of
\* remainingTime minutes is open.
C31_Witness ==
    /\ Live
    /\ lastMsg = "TICK"
    /\ notified = "Final Segment"
    /\ globalTimerState.isWorkTime
    /\ globalTimerState.currentBlock = globalTimerState.blocks
    /\ globalTimerState.currentTime = globalTimerState.remainingTime * 60
    /\ globalTimerState.remainingTime > 0

\* C33: every answer to GET_TIMER_STATE given while a session is live, in a
\* work phase or in a break (a break of grace = 0 included), passes the
\* popup's isValidTimer, so switchView('timer') takes it as the running
\* session and shows its countdown.
C33_LiveSnapshotTrusted ==
    [][(lastMsg' = "GET_TIMER_STATE" /\ Live) =>
          /\ SnapshotTrusted(response')
          /\ ShowsCountdown(response'.currentTimer)]_vars

\* C36: whenever a stop, a natural completion or a command handled while
\* Idle leaves the scheduler Idle, chrome.storage.local holds neither
\* currentTimer nor isPaused.
C36_IdleStorageEmpty ==
    [][(/\ ~Live'
        /\ lastMsg' \in {"STOP_TIMER", "PAUSE_TIMER", "RESUME_TIMER", "TICK"}) =>
          storage'.keys = {}]_vars

\* C34: over one running session the progress the popup computes from the
\* scheduler's state is 0 when the session starts and, from one second's
\* state to the next, never goes down.
C34_ProgressMonotone ==
    [][/\ lastMsg' = "START_TIMER" =>
              progressPercent(globalTimerState').num = 0
       /\ (lastMsg' = "TICK" /\ Live /\ Live') =>
              progressPercent(globalTimerState').num >=
                  progressPercent(globalTimerState).num]_vars

\* C37: a request the limiter lets through is answered exactly once, on
\* every path of the handler: a validation failure, an upstream exception, a
\* completion that does not parse or does not fit the schema, and success
\* each write one response, and it is the one the client receives.
C37_ExactlyOneResponse ==
    (gwLast # Null /\ ~gwLast.limited) =>
        /\ Len(gwLast.sends) = 1
        /\ gwLast.sends[1] = gwLast.response

\* A request that reached the completion service, which threw: the catch
\* block's generic answer is the one response.
C37_Witness ==
    /\ gwLast # Null
    /\ ~gwLast.limited
    /\ gwLast.upstream.kind = "throws"
    /\ Len(gwLast.sends) = 1
    /\ gwLast.sends[1].status = 500

\* C39: while some DreamResultsUI instance is initialised and not destroyed,
\* the document has the 'dream-results-styles' element: destroy takes it away
\* only with the last such instance.
C39_StylesWhileInUse ==
    (\E i \in Instances : container[i] # "null") => styleElement

\* C32: when _makeRequest has returned or thrown, on a success, a non-2xx
\* answer, a network error or an abort alike, the timeout timer of the
\* request is not pending; and a request that ended with the timeout error
\* had controller.abort() called on its fetch first.
C32_TimeoutReleased ==
    apiPhase = "settled" =>
        /\ apiTimer \in {"cleared", "fired"}
        /\ (apiReturn.threw /\ apiReturn.message = "Request timeout. Please try again.")
               => (apiAborted /\ apiTimer = "fired")

\* A request that was out for the whole timeout, was aborted, and ended with
\* the timeout error.
C32_Witness ==
    /\ apiPhase = "settled"
    /\ apiWait = TimeoutSeconds
    /\ apiAborted
    /\ apiTimer = "fired"
    /\ apiReturn.threw
    /\ apiReturn.message = "Request timeout. Please try again."

\* C38: the dreamText of every request analyzeDream sends has a length the
\* gateway's validation accepts, from 20 to 2000, and a text the client
\* refuses is never sent.
C38_SendsOnlyAcceptable ==
    /\ apiPayload # Null =>
           /\ length(apiPayload) >= 20
           /\ length(apiPayload) <= 2000
           /\ ValidationErrors([hasText |-> TRUE, len |-> length(apiPayload)]) = ""
    /\ (apiText # Null /\ analyzeDreamRejects(apiText) # "") =>
           (apiPayload = Null /\ apiPhase = "idle")

\* C35: the popup never has more than one polling loop going, whatever its
\* user switches, starts and stops; and when stopTimer has completed none
\* of its loops is left to poll GET_TIMER_STATE or to send STOP_TIMER.
C35_OnePollingInterval ==
    /\ popLive <= 1
    /\ popLast = "stopTimer" => popLive = 0

====
